---- MODULE Spec2Model ----
(***************************************************************************)
(* pecoregex: processing of a "document" of regex patterns and subjects    *)
(* (util.py) on top of the libpcre binding (pcre.py).                      *)
(*                                                                         *)
(* Python values are tagged records.  A str is a sequence of code points,  *)
(* bytes are a sequence of 0..255, a dict is the sequence of its           *)
(* <<key, value>> items in insertion order.  The execute lists of the      *)
(* patterns are objects on a heap, named by an id, because two patterns    *)
(* may hold the same list object (factory.py, DocumentFactory1n).          *)
(***************************************************************************)
EXTENDS Integers, Sequences, FiniteSets, TLC

VARIABLES
  doc,      \* the document handed to util.process (a dict)
  heap,     \* the execute list objects: id -> sequence of Execution dicts
  doc0,     \* doc as it was when process was called
  heap0,    \* heap as it was when process was called
  pc,       \* position of util.process: "idle", "loop", "exec", "returned", "raised"
  pi,       \* position of the `for pattern in doc[PATTERNS]` loop (1-based)
  ei,       \* position of the `for exe in pattern.get(EXECUTE, [])` loop (1-based)
  code,     \* the local variable `code` of process (0: not bound yet)
  lib,      \* the PCRELibrary instance of process
  engine,   \* libpcre's memory: the compiled patterns that are allocated
  calls,    \* every call made into libpcre, in order
  failure,  \* the exception that left process, if any
  warnings, \* the lines written to stderr by extract_option_values
  fn,       \* function specifications: which function is applied
  arg,      \* function specifications: its arguments
  res       \* function specifications: its result ("none" before the call)

vars == <<doc, heap, doc0, heap0, pc, pi, ei, code, lib, engine, calls, failure,
          warnings, fn, arg, res>>
procVars == <<doc, heap, doc0, heap0, pc, pi, ei, code, lib, engine, calls, failure,
              warnings>>
fnVars == <<fn, arg, res>>

----------------------------------------------------------------------------
(* Bounds of the model *)

\* longest `patterns` list of a document
MaxPatterns == 2
\* longest execute list among those chosen freely (list 1 of the heap)
MaxExecs == 1
\* highest capturing group number of the inputs of get_captures
MaxGroups == 2
\* longest reference list of the inputs of get_value
MaxReference == 3
\* longest group name of the inputs of nametable_entry
MaxNameLen == 2

----------------------------------------------------------------------------
(* Python values *)

PyNone == [k |-> "none"]
PyBool(b) == [k |-> "bool", v |-> b]
PyInt(n) == [k |-> "int", v |-> n]
PyStr(s) == [k |-> "str", v |-> s]
PyList(l) == [k |-> "list", v |-> l]
PyDict(d) == [k |-> "dict", v |-> d]
PyTuple(t) == [k |-> "tuple", v |-> t]
PyRef(id) == [k |-> "ref", v |-> id]

\* the outcome of a call: a returned value or a raised exception
Return(val) == [ok |-> TRUE, val |-> val, exc |-> "none"]
Raise(exc) == [ok |-> FALSE, val |-> PyNone, exc |-> exc]

\* key in d
Has(d, key) == \E i \in 1..Len(d) : d[i][1] = key
\* d[key], for a key of d
Get(d, key) == d[CHOOSE i \in 1..Len(d) : d[i][1] = key][2]
\* d[key] = val: an existing key keeps its position, a new key goes last
Set(d, key, val) ==
  IF Has(d, key)
  THEN [i \in 1..Len(d) |-> IF d[i][1] = key THEN <<key, val>> ELSE d[i]]
  ELSE Append(d, <<key, val>>)
\* d.pop(key), for a key of d: the dict that is left
Pop(d, key) == SelectSeq(d, LAMBDA e : e[1] # key)
\* list(d.keys())
Keys(d) == [i \in 1..Len(d) |-> d[i][1]]
\* d.get(key, default)
GetOr(d, key, default) == IF Has(d, key) THEN Get(d, key) ELSE default

\* bool(x) of the values exec returns: False, or a dict (true when not empty)
Truthy(x) ==
  CASE x.k = "bool" -> x.v
    [] x.k = "dict" -> Len(x.v) > 0
    [] x.k = "list" -> Len(x.v) > 0
    [] x.k = "str" -> Len(x.v) > 0
    [] x.k = "int" -> x.v # 0
    [] OTHER -> FALSE

----------------------------------------------------------------------------
(* document.py: the keys of a document *)

REFERENCE_COMPILE_OPTIONS == "compile_options"
REFERENCE_EXECUTE_OPTIONS == "execute_options"
REFERENCE_PATTERN_STRINGS == "pattern_strings"
REFERENCE_SUBJECT_STRINGS == "subject_strings"
PATTERNS == "patterns"
PATTERN_VALUE == "value"
COMPILE_OPTIONS == "options"
EXECUTE == "execute"
SUBJECT == "subject"
EXECUTE_OPTIONS == "options"
COMPILE == "compile"
ERROR == "error"
ERROR_MESSAGE == "message"
ERROR_OFFSET == "offset"
MATCH == "match"
CAPTURES == "captures"

----------------------------------------------------------------------------
(* str and bytes *)

\* the code points str.strip() removes
Whitespace == {9, 10, 11, 12, 13, 28, 29, 30, 31, 32, 133, 160}

RECURSIVE LStrip(_)
LStrip(s) == IF s # << >> /\ Head(s) \in Whitespace THEN LStrip(Tail(s)) ELSE s
RECURSIVE RStrip(_)
RStrip(s) ==
  IF s # << >> /\ s[Len(s)] \in Whitespace THEN RStrip(SubSeq(s, 1, Len(s) - 1)) ELSE s
\* s.strip()
Strip(s) == RStrip(LStrip(s))

\* s.upper(), for the code points below 128
UpperCp(c) == IF c >= 97 /\ c <= 122 THEN c - 32 ELSE c
Upper(s) == [i \in 1..Len(s) |-> UpperCp(s[i])]

\* s.startswith(prefix)
StartsWith(s, prefix) == Len(s) >= Len(prefix) /\ SubSeq(s, 1, Len(prefix)) = prefix

\* s.split(sep), sep one code point: the pieces, empty ones included
RECURSIVE SplitAcc(_, _, _, _)
SplitAcc(s, sep, piece, done) ==
  IF s = << >> THEN Append(done, piece)
  ELSE IF Head(s) = sep THEN SplitAcc(Tail(s), sep, << >>, Append(done, piece))
  ELSE SplitAcc(Tail(s), sep, Append(piece, Head(s)), done)
Split(s, sep) == SplitAcc(s, sep, << >>, << >>)

\* b[start:end] of Python, start and end any integers (negative: from the end)
SliceBound(n, len) == IF n < 0 THEN (IF n + len < 0 THEN 0 ELSE n + len)
                      ELSE (IF n > len THEN len ELSE n)
Slice(b, start, end) == SubSeq(b, SliceBound(start, Len(b)) + 1, SliceBound(end, Len(b)))

\* str.encode: UTF-8 of a code point below 0x800, one byte per code point
\* below 256 for latin-1; a code point the encoding lacks raises
EncodeCp(c, encoding) ==
  CASE encoding = "utf-8" /\ c < 128 -> Return(<<c>>)
    [] encoding = "utf-8" /\ c >= 128 -> Return(<<192 + (c \div 64), 128 + (c % 64)>>)
    [] encoding = "latin-1" /\ c < 256 -> Return(<<c>>)
    [] encoding = "ascii" /\ c < 128 -> Return(<<c>>)
    [] OTHER -> Raise("UnicodeEncodeError")
RECURSIVE Encode(_, _)
Encode(s, encoding) ==
  IF s = << >> THEN Return(<< >>)
  ELSE LET h == EncodeCp(Head(s), encoding)
           t == Encode(Tail(s), encoding)
       IN  IF ~h.ok THEN h ELSE IF ~t.ok THEN t ELSE Return(h.val \o t.val)

\* bytes.decode: UTF-8 sequences of one and two bytes; a stray continuation
\* byte or a truncated sequence raises
RECURSIVE Decode(_, _)
Decode(b, encoding) ==
  IF b = << >> THEN Return(<< >>)
  ELSE LET c == Head(b)
           two == encoding = "utf-8" /\ c >= 194 /\ c < 224 /\ Len(b) >= 2
                  /\ b[2] >= 128 /\ b[2] < 192
           one == \/ c < 128
                  \/ encoding = "latin-1"
           rest == IF two THEN SubSeq(b, 3, Len(b)) ELSE Tail(b)
           cp == IF two THEN (c - 192) * 64 + (b[2] - 128) ELSE c
       IN  IF ~(one \/ two) THEN Raise("UnicodeDecodeError")
           ELSE LET t == Decode(rest, encoding)
                IN  IF ~t.ok THEN t ELSE Return(<<cp>> \o t.val)

\* x | y on the naturals
RECURSIVE BitOr(_, _)
BitOr(x, y) ==
  IF x = 0 THEN y
  ELSE IF y = 0 THEN x
  ELSE (IF x % 2 = 1 \/ y % 2 = 1 THEN 1 ELSE 0) + 2 * BitOr(x \div 2, y \div 2)

ConstantTable ==
  << <<<<80, 67, 82, 69, 95, 67, 65, 83, 69, 76, 69, 83, 83>>, 1>>, \* PCRE_CASELESS (pcre.py:17)
     <<<<80, 67, 82, 69, 95, 77, 85, 76, 84, 73, 76, 73, 78, 69>>, 2>>, \* PCRE_MULTILINE (pcre.py:18)
     <<<<80, 67, 82, 69, 95, 68, 79, 84, 65, 76, 76>>, 4>>, \* PCRE_DOTALL (pcre.py:19)
     <<<<80, 67, 82, 69, 95, 69, 88, 84, 69, 78, 68, 69, 68>>, 8>>, \* PCRE_EXTENDED (pcre.py:20)
     <<<<80, 67, 82, 69, 95, 65, 78, 67, 72, 79, 82, 69, 68>>, 16>>, \* PCRE_ANCHORED (pcre.py:21)
     <<<<80, 67, 82, 69, 95, 68, 79, 76, 76, 65, 82, 95, 69, 78, 68, 79, 78, 76, 89>>, 32>>, \* PCRE_DOLLAR_ENDONLY (pcre.py:22)
     <<<<80, 67, 82, 69, 95, 69, 88, 84, 82, 65>>, 64>>, \* PCRE_EXTRA (pcre.py:23)
     <<<<80, 67, 82, 69, 95, 78, 79, 84, 66, 79, 76>>, 128>>, \* PCRE_NOTBOL (pcre.py:24)
     <<<<80, 67, 82, 69, 95, 78, 79, 84, 69, 79, 76>>, 256>>, \* PCRE_NOTEOL (pcre.py:25)
     <<<<80, 67, 82, 69, 95, 85, 78, 71, 82, 69, 69, 68, 89>>, 512>>, \* PCRE_UNGREEDY (pcre.py:26)
     <<<<80, 67, 82, 69, 95, 78, 79, 84, 69, 77, 80, 84, 89>>, 1024>>, \* PCRE_NOTEMPTY (pcre.py:27)
     <<<<80, 67, 82, 69, 95, 85, 84, 70, 56>>, 2048>>, \* PCRE_UTF8 (pcre.py:28)
     <<<<80, 67, 82, 69, 95, 85, 84, 70, 49, 54>>, 2048>>, \* PCRE_UTF16 (pcre.py:29)
     <<<<80, 67, 82, 69, 95, 85, 84, 70, 51, 50>>, 2048>>, \* PCRE_UTF32 (pcre.py:30)
     <<<<80, 67, 82, 69, 95, 78, 79, 95, 65, 85, 84, 79, 95, 67, 65, 80, 84, 85, 82, 69>>, 4096>>, \* PCRE_NO_AUTO_CAPTURE (pcre.py:31)
     <<<<80, 67, 82, 69, 95, 78, 79, 95, 85, 84, 70, 56, 95, 67, 72, 69, 67, 75>>, 8192>>, \* PCRE_NO_UTF8_CHECK (pcre.py:32)
     <<<<80, 67, 82, 69, 95, 78, 79, 95, 85, 84, 70, 49, 54, 95, 67, 72, 69, 67, 75>>, 8192>>, \* PCRE_NO_UTF16_CHECK (pcre.py:33)
     <<<<80, 67, 82, 69, 95, 78, 79, 95, 85, 84, 70, 51, 50, 95, 67, 72, 69, 67, 75>>, 8192>>, \* PCRE_NO_UTF32_CHECK (pcre.py:34)
     <<<<80, 67, 82, 69, 95, 65, 85, 84, 79, 95, 67, 65, 76, 76, 79, 85, 84>>, 16384>>, \* PCRE_AUTO_CALLOUT (pcre.py:35)
     <<<<80, 67, 82, 69, 95, 80, 65, 82, 84, 73, 65, 76, 95, 83, 79, 70, 84>>, 32768>>, \* PCRE_PARTIAL_SOFT (pcre.py:36)
     <<<<80, 67, 82, 69, 95, 80, 65, 82, 84, 73, 65, 76>>, 32768>>, \* PCRE_PARTIAL (pcre.py:37)
     <<<<80, 67, 82, 69, 95, 78, 69, 86, 69, 82, 95, 85, 84, 70>>, 65536>>, \* PCRE_NEVER_UTF (pcre.py:38)
     <<<<80, 67, 82, 69, 95, 68, 70, 65, 95, 83, 72, 79, 82, 84, 69, 83, 84>>, 65536>>, \* PCRE_DFA_SHORTEST (pcre.py:39)
     <<<<80, 67, 82, 69, 95, 78, 79, 95, 65, 85, 84, 79, 95, 80, 79, 83, 83, 69, 83, 83>>, 131072>>, \* PCRE_NO_AUTO_POSSESS (pcre.py:40)
     <<<<80, 67, 82, 69, 95, 68, 70, 65, 95, 82, 69, 83, 84, 65, 82, 84>>, 131072>>, \* PCRE_DFA_RESTART (pcre.py:41)
     <<<<80, 67, 82, 69, 95, 70, 73, 82, 83, 84, 76, 73, 78, 69>>, 262144>>, \* PCRE_FIRSTLINE (pcre.py:42)
     <<<<80, 67, 82, 69, 95, 68, 85, 80, 78, 65, 77, 69, 83>>, 524288>>, \* PCRE_DUPNAMES (pcre.py:43)
     <<<<80, 67, 82, 69, 95, 78, 69, 87, 76, 73, 78, 69, 95, 67, 82>>, 1048576>>, \* PCRE_NEWLINE_CR (pcre.py:44)
     <<<<80, 67, 82, 69, 95, 78, 69, 87, 76, 73, 78, 69, 95, 76, 70>>, 2097152>>, \* PCRE_NEWLINE_LF (pcre.py:45)
     <<<<80, 67, 82, 69, 95, 78, 69, 87, 76, 73, 78, 69, 95, 67, 82, 76, 70>>, 3145728>>, \* PCRE_NEWLINE_CRLF (pcre.py:46)
     <<<<80, 67, 82, 69, 95, 78, 69, 87, 76, 73, 78, 69, 95, 65, 78, 89>>, 4194304>>, \* PCRE_NEWLINE_ANY (pcre.py:47)
     <<<<80, 67, 82, 69, 95, 78, 69, 87, 76, 73, 78, 69, 95, 65, 78, 89, 67, 82, 76, 70>>, 5242880>>, \* PCRE_NEWLINE_ANYCRLF (pcre.py:48)
     <<<<80, 67, 82, 69, 95, 66, 83, 82, 95, 65, 78, 89, 67, 82, 76, 70>>, 8388608>>, \* PCRE_BSR_ANYCRLF (pcre.py:49)
     <<<<80, 67, 82, 69, 95, 66, 83, 82, 95, 85, 78, 73, 67, 79, 68, 69>>, 16777216>>, \* PCRE_BSR_UNICODE (pcre.py:50)
     <<<<80, 67, 82, 69, 95, 74, 65, 86, 65, 83, 67, 82, 73, 80, 84, 95, 67, 79, 77, 80, 65, 84>>, 33554432>>, \* PCRE_JAVASCRIPT_COMPAT (pcre.py:51)
     <<<<80, 67, 82, 69, 95, 78, 79, 95, 83, 84, 65, 82, 84, 95, 79, 80, 84, 73, 77, 73, 90, 69>>, 67108864>>, \* PCRE_NO_START_OPTIMIZE (pcre.py:52)
     <<<<80, 67, 82, 69, 95, 78, 79, 95, 83, 84, 65, 82, 84, 95, 79, 80, 84, 73, 77, 73, 83, 69>>, 67108864>>, \* PCRE_NO_START_OPTIMISE (pcre.py:53)
     <<<<80, 67, 82, 69, 95, 80, 65, 82, 84, 73, 65, 76, 95, 72, 65, 82, 68>>, 134217728>>, \* PCRE_PARTIAL_HARD (pcre.py:54)
     <<<<80, 67, 82, 69, 95, 78, 79, 84, 69, 77, 80, 84, 89, 95, 65, 84, 83, 84, 65, 82, 84>>, 268435456>>, \* PCRE_NOTEMPTY_ATSTART (pcre.py:55)
     <<<<80, 67, 82, 69, 95, 85, 67, 80>>, 536870912>>, \* PCRE_UCP (pcre.py:56)
     <<<<80, 67, 82, 69, 95, 73, 78, 70, 79, 95, 79, 80, 84, 73, 79, 78, 83>>, 0>>, \* PCRE_INFO_OPTIONS (pcre.py:58)
     <<<<80, 67, 82, 69, 95, 73, 78, 70, 79, 95, 83, 73, 90, 69>>, 1>>, \* PCRE_INFO_SIZE (pcre.py:59)
     <<<<80, 67, 82, 69, 95, 73, 78, 70, 79, 95, 67, 65, 80, 84, 85, 82, 69, 67, 79, 85, 78, 84>>, 2>>, \* PCRE_INFO_CAPTURECOUNT (pcre.py:60)
     <<<<80, 67, 82, 69, 95, 73, 78, 70, 79, 95, 66, 65, 67, 75, 82, 69, 70, 77, 65, 88>>, 3>>, \* PCRE_INFO_BACKREFMAX (pcre.py:61)
     <<<<80, 67, 82, 69, 95, 73, 78, 70, 79, 95, 70, 73, 82, 83, 84, 66, 89, 84, 69>>, 4>>, \* PCRE_INFO_FIRSTBYTE (pcre.py:62)
     <<<<80, 67, 82, 69, 95, 73, 78, 70, 79, 95, 70, 73, 82, 83, 84, 67, 72, 65, 82>>, 4>>, \* PCRE_INFO_FIRSTCHAR (pcre.py:63)
     <<<<80, 67, 82, 69, 95, 73, 78, 70, 79, 95, 70, 73, 82, 83, 84, 84, 65, 66, 76, 69>>, 5>>, \* PCRE_INFO_FIRSTTABLE (pcre.py:64)
     <<<<80, 67, 82, 69, 95, 73, 78, 70, 79, 95, 76, 65, 83, 84, 76, 73, 84, 69, 82, 65, 76>>, 6>>, \* PCRE_INFO_LASTLITERAL (pcre.py:65)
     <<<<80, 67, 82, 69, 95, 73, 78, 70, 79, 95, 78, 65, 77, 69, 69, 78, 84, 82, 89, 83, 73, 90, 69>>, 7>>, \* PCRE_INFO_NAMEENTRYSIZE (pcre.py:66)
     <<<<80, 67, 82, 69, 95, 73, 78, 70, 79, 95, 78, 65, 77, 69, 67, 79, 85, 78, 84>>, 8>>, \* PCRE_INFO_NAMECOUNT (pcre.py:67)
     <<<<80, 67, 82, 69, 95, 73, 78, 70, 79, 95, 78, 65, 77, 69, 84, 65, 66, 76, 69>>, 9>>, \* PCRE_INFO_NAMETABLE (pcre.py:68)
     <<<<80, 67, 82, 69, 95, 73, 78, 70, 79, 95, 83, 84, 85, 68, 89, 83, 73, 90, 69>>, 10>>, \* PCRE_INFO_STUDYSIZE (pcre.py:69)
     <<<<80, 67, 82, 69, 95, 73, 78, 70, 79, 95, 68, 69, 70, 65, 85, 76, 84, 95, 84, 65, 66, 76, 69, 83>>, 11>>, \* PCRE_INFO_DEFAULT_TABLES (pcre.py:70)
     <<<<80, 67, 82, 69, 95, 73, 78, 70, 79, 95, 79, 75, 80, 65, 82, 84, 73, 65, 76>>, 12>>, \* PCRE_INFO_OKPARTIAL (pcre.py:71)
     <<<<80, 67, 82, 69, 95, 73, 78, 70, 79, 95, 74, 67, 72, 65, 78, 71, 69, 68>>, 13>>, \* PCRE_INFO_JCHANGED (pcre.py:72)
     <<<<80, 67, 82, 69, 95, 73, 78, 70, 79, 95, 72, 65, 83, 67, 82, 79, 82, 76, 70>>, 14>>, \* PCRE_INFO_HASCRORLF (pcre.py:73)
     <<<<80, 67, 82, 69, 95, 73, 78, 70, 79, 95, 77, 73, 78, 76, 69, 78, 71, 84, 72>>, 15>>, \* PCRE_INFO_MINLENGTH (pcre.py:74)
     <<<<80, 67, 82, 69, 95, 73, 78, 70, 79, 95, 74, 73, 84>>, 16>>, \* PCRE_INFO_JIT (pcre.py:75)
     <<<<80, 67, 82, 69, 95, 73, 78, 70, 79, 95, 74, 73, 84, 83, 73, 90, 69>>, 17>>, \* PCRE_INFO_JITSIZE (pcre.py:76)
     <<<<80, 67, 82, 69, 95, 73, 78, 70, 79, 95, 77, 65, 88, 76, 79, 79, 75, 66, 69, 72, 73, 78, 68>>, 18>>, \* PCRE_INFO_MAXLOOKBEHIND (pcre.py:77)
     <<<<80, 67, 82, 69, 95, 73, 78, 70, 79, 95, 70, 73, 82, 83, 84, 67, 72, 65, 82, 65, 67, 84, 69, 82>>, 19>>, \* PCRE_INFO_FIRSTCHARACTER (pcre.py:78)
     <<<<80, 67, 82, 69, 95, 73, 78, 70, 79, 95, 70, 73, 82, 83, 84, 67, 72, 65, 82, 65, 67, 84, 69, 82, 70, 76, 65, 71, 83>>, 20>>, \* PCRE_INFO_FIRSTCHARACTERFLAGS (pcre.py:79)
     <<<<80, 67, 82, 69, 95, 73, 78, 70, 79, 95, 82, 69, 81, 85, 73, 82, 69, 68, 67, 72, 65, 82>>, 21>>, \* PCRE_INFO_REQUIREDCHAR (pcre.py:80)
     <<<<80, 67, 82, 69, 95, 73, 78, 70, 79, 95, 82, 69, 81, 85, 73, 82, 69, 68, 67, 72, 65, 82, 70, 76, 65, 71, 83>>, 22>>, \* PCRE_INFO_REQUIREDCHARFLAGS (pcre.py:81)
     <<<<80, 67, 82, 69, 95, 67, 79, 78, 70, 73, 71, 95, 85, 84, 70, 56>>, 0>>, \* PCRE_CONFIG_UTF8 (pcre.py:83)
     <<<<80, 67, 82, 69, 95, 67, 79, 78, 70, 73, 71, 95, 78, 69, 87, 76, 73, 78, 69>>, 1>>, \* PCRE_CONFIG_NEWLINE (pcre.py:84)
     <<<<80, 67, 82, 69, 95, 67, 79, 78, 70, 73, 71, 95, 76, 73, 78, 75, 95, 83, 73, 90, 69>>, 2>>, \* PCRE_CONFIG_LINK_SIZE (pcre.py:85)
     <<<<80, 67, 82, 69, 95, 67, 79, 78, 70, 73, 71, 95, 80, 79, 83, 73, 88, 95, 77, 65, 76, 76, 79, 67, 95, 84, 72, 82, 69, 83, 72, 79, 76, 68>>, 3>>, \* PCRE_CONFIG_POSIX_MALLOC_THRESHOLD (pcre.py:86)
     <<<<80, 67, 82, 69, 95, 67, 79, 78, 70, 73, 71, 95, 77, 65, 84, 67, 72, 95, 76, 73, 77, 73, 84>>, 4>>, \* PCRE_CONFIG_MATCH_LIMIT (pcre.py:87)
     <<<<80, 67, 82, 69, 95, 67, 79, 78, 70, 73, 71, 95, 83, 84, 65, 67, 75, 82, 69, 67, 85, 82, 83, 69>>, 5>>, \* PCRE_CONFIG_STACKRECURSE (pcre.py:88)
     <<<<80, 67, 82, 69, 95, 67, 79, 78, 70, 73, 71, 95, 85, 78, 73, 67, 79, 68, 69, 95, 80, 82, 79, 80, 69, 82, 84, 73, 69, 83>>, 6>>, \* PCRE_CONFIG_UNICODE_PROPERTIES (pcre.py:89)
     <<<<80, 67, 82, 69, 95, 67, 79, 78, 70, 73, 71, 95, 77, 65, 84, 67, 72, 95, 76, 73, 77, 73, 84, 95, 82, 69, 67, 85, 82, 83, 73, 79, 78>>, 7>>, \* PCRE_CONFIG_MATCH_LIMIT_RECURSION (pcre.py:90)
     <<<<80, 67, 82, 69, 95, 67, 79, 78, 70, 73, 71, 95, 66, 83, 82>>, 8>>, \* PCRE_CONFIG_BSR (pcre.py:91)
     <<<<80, 67, 82, 69, 95, 67, 79, 78, 70, 73, 71, 95, 74, 73, 84>>, 9>>, \* PCRE_CONFIG_JIT (pcre.py:92)
     <<<<80, 67, 82, 69, 95, 67, 79, 78, 70, 73, 71, 95, 85, 84, 70, 49, 54>>, 10>>, \* PCRE_CONFIG_UTF16 (pcre.py:93)
     <<<<80, 67, 82, 69, 95, 67, 79, 78, 70, 73, 71, 95, 74, 73, 84, 84, 65, 82, 71, 69, 84>>, 11>>, \* PCRE_CONFIG_JITTARGET (pcre.py:94)
     <<<<80, 67, 82, 69, 95, 67, 79, 78, 70, 73, 71, 95, 85, 84, 70, 51, 50>>, 12>>, \* PCRE_CONFIG_UTF32 (pcre.py:95)
     <<<<80, 67, 82, 69, 95, 67, 79, 78, 70, 73, 71, 95, 80, 65, 82, 69, 78, 83, 95, 76, 73, 77, 73, 84>>, 13>> >> \* PCRE_CONFIG_PARENS_LIMIT (pcre.py:96)

----------------------------------------------------------------------------
(* util.py: option names *)

PREFIX == <<80, 67, 82, 69, 95>>  \* 'PCRE_'

normalise_constant(name) ==
  LET upper == Upper(name)
  IN  IF ~StartsWith(upper, PREFIX) THEN PREFIX \o upper ELSE upper

\* getattr(pcre, normalise_constant(name), PyNone)
constant(name) ==
  LET n == normalise_constant(name)
      hits == {i \in 1..Len(ConstantTable) : ConstantTable[i][1] = n}
  IN  IF hits = {} THEN PyNone ELSE PyInt(ConstantTable[CHOOSE i \in hits : TRUE][2])

\* faulty variant of StrippedPieces: the empty pieces are kept
RECURSIVE StrippedPieces_KeepingEmpty(_)
StrippedPieces_KeepingEmpty(pieces) ==
  IF pieces = << >> THEN << >>
  ELSE <<Strip(Head(pieces))>> \o StrippedPieces_KeepingEmpty(Tail(pieces))

\* the non-empty stripped pieces of one string
RECURSIVE StrippedPieces(_)
StrippedPieces(pieces) ==
  IF pieces = << >> THEN << >>
  ELSE LET option == Strip(Head(pieces))
       IN  (IF option # << >> THEN <<option>> ELSE << >>) \o StrippedPieces(Tail(pieces))

RECURSIVE ExtractFromStrings(_)
ExtractFromStrings(values) ==
  IF values = << >> THEN << >>
  ELSE StrippedPieces(Split(Head(values).v, 124)) \o ExtractFromStrings(Tail(values))

\* list(extract_options(arg_values)): arg_values a str or a list of str
extract_options(arg_values) ==
  ExtractFromStrings(IF arg_values.k # "list" THEN <<arg_values>> ELSE arg_values.v)

RECURSIVE KnownNames(_)
KnownNames(names) ==
  IF names = << >> THEN << >>
  ELSE LET normalised_name == normalise_constant(Head(names))
       IN  (IF constant(normalised_name) # PyNone THEN <<PyStr(normalised_name)>> ELSE << >>)
           \o KnownNames(Tail(names))

\* faulty variant of normalise_options: the names come out last first
normalise_options_last_first(options) ==
  LET names == KnownNames(extract_options(options))
  IN  PyList([i \in 1..Len(names) |-> names[Len(names) + 1 - i]])

normalise_options(options) == PyList(KnownNames(extract_options(options)))

RECURSIVE ValuesOf(_)
ValuesOf(names) ==
  IF names = << >> THEN << >>
  ELSE (IF constant(Head(names)) = PyNone THEN << >> ELSE <<constant(Head(names)).v>>)
       \o ValuesOf(Tail(names))

\* list(extract_option_values(arg_values))
extract_option_values(arg_values) == ValuesOf(extract_options(arg_values))

\* faulty variant of option_warnings: a name is warned about once only
option_warnings_once(arg_values) ==
  LET unknown == SelectSeq(extract_options(arg_values), LAMBDA option : constant(option) = PyNone)
      first == SelectSeq([i \in 1..Len(unknown) |-> <<i, unknown[i]>>],
                         LAMBDA e : \A j \in 1..(e[1] - 1) : unknown[j] # e[2])
  IN  [i \in 1..Len(first) |-> first[i][2]]

\* the names extract_option_values(arg_values) warns about on stderr, in order
option_warnings(arg_values) ==
  SelectSeq(extract_options(arg_values), LAMBDA option : constant(option) = PyNone)

\* faulty variant of or_options: the values are added
RECURSIVE or_options_adding(_, _)
or_options_adding(values, initial_value) ==
  IF values = << >> THEN initial_value
  ELSE or_options_adding(Tail(values), initial_value + Head(values))

RECURSIVE or_options(_, _)
or_options(values, initial_value) ==
  IF values = << >> THEN initial_value
  ELSE or_options(Tail(values), BitOr(initial_value, Head(values)))

\* faulty variant of NormaliseIn: a missing key is given an empty list
NormaliseIn_AddingKey(obj, key) ==
  IF ~Has(obj, key) THEN Set(obj, key, PyList(<< >>))
  ELSE IF Get(obj, key).k \in {"int", "bool"} THEN obj
  ELSE Set(obj, key, normalise_options(Get(obj, key)))

\* normalise(obj, key) of normalise_doc_options, for a pattern or an Execution
NormaliseIn(obj, key) ==
  IF ~Has(obj, key) \/ Get(obj, key).k \in {"int", "bool"} THEN obj
  ELSE Set(obj, key, normalise_options(Get(obj, key)))
\* normalise(doc[key], index, check_key=False, ignore_int=False) for every
\* index of a reference list the document has
NormaliseReference(d, key) ==
  IF ~Has(d, key) THEN d
  ELSE Set(d, key, PyList([index \in 1..Len(Get(d, key).v) |->
                             normalise_options(Get(d, key).v[index])]))
\* the execute lists after the loop over the patterns
RECURSIVE NormaliseExecutions(_, _)
NormaliseExecutions(patterns, h) ==
  IF patterns = << >> THEN h
  ELSE NormaliseExecutions(Tail(patterns),
         IF ~Has(Head(patterns), EXECUTE) THEN h
         ELSE [h EXCEPT ![Get(Head(patterns), EXECUTE).v] =
                 [e \in 1..Len(@) |-> NormaliseIn(@[e], EXECUTE_OPTIONS)]])
\* normalise_doc_options(doc): the document and its execute lists afterwards
normalise_doc_options(d, h) ==
  LET refs == NormaliseReference(NormaliseReference(d, REFERENCE_COMPILE_OPTIONS), REFERENCE_EXECUTE_OPTIONS)
      patterns == GetOr(d, PATTERNS, PyList(<< >>)).v
  IN  [doc |-> IF ~Has(d, PATTERNS) THEN refs
               ELSE Set(refs, PATTERNS,
                        PyList([p \in 1..Len(patterns) |-> NormaliseIn(patterns[p], COMPILE_OPTIONS)])),
       heap |-> NormaliseExecutions(patterns, h)]

----------------------------------------------------------------------------
(* util.py: references *)

\* isinstance(val, int): a bool is an int in Python, True being 1 and False 0
IsInstanceInt(val) == val.k \in {"int", "bool"}
IntOf(val) == IF val.k = "bool" THEN (IF val.v THEN 1 ELSE 0) ELSE val.v

\* reference[n] of a Python list: a negative n counts from the end
ListIndex(reference, n) ==
  IF n >= 0 /\ n < Len(reference) THEN Return(reference[n + 1])
  ELSE IF n < 0 /\ n + Len(reference) >= 0 THEN Return(reference[n + Len(reference) + 1])
  ELSE Raise("IndexError")

\* faulty variant of get_value: an index out of range is reported as a
\* missing key
get_value_one_kind(obj, key, reference, default) ==
  LET try == IF ~Has(obj, key) THEN Raise("KeyError")
             ELSE LET val == Get(obj, key)
                  IN  IF IsInstanceInt(val)
                      THEN (IF ListIndex(reference, IntOf(val)).ok
                            THEN ListIndex(reference, IntOf(val)) ELSE Raise("KeyError"))
                      ELSE Return(val)
  IN  IF try.ok THEN try
      ELSE IF default = PyNone THEN try
      ELSE Return(default)

\* default = PyNone stands for "no default"
get_value(obj, key, reference, default) ==
  LET try == IF ~Has(obj, key) THEN Raise("KeyError")
             ELSE LET val == Get(obj, key)
                  IN  IF IsInstanceInt(val) THEN ListIndex(reference, IntOf(val))
                      ELSE Return(val)
  IN  IF try.ok THEN try
      ELSE IF default = PyNone THEN try
      ELSE Return(default)

\* faulty variant of add_compile_keys_to_pattern: an error dict that is
\* already there is left as it is
add_compile_keys_keeping_error(pattern) ==
  LET execute_in_pattern == Has(pattern, EXECUTE)
      popped == IF execute_in_pattern THEN Pop(pattern, EXECUTE) ELSE pattern
      p1 == Set(popped, COMPILE, PyBool(TRUE))
      p2 == IF ~Has(p1, ERROR)
            THEN Set(p1, ERROR, PyDict(<< <<ERROR_MESSAGE, PyNone>>, <<ERROR_OFFSET, PyNone>> >>))
            ELSE p1
  IN  IF execute_in_pattern THEN Set(p2, EXECUTE, Get(pattern, EXECUTE)) ELSE p2

\* faulty variant of add_compile_keys_to_pattern: execute is not detached
add_compile_keys_without_pop(pattern) ==
  LET p1 == Set(pattern, COMPILE, PyBool(TRUE))
      p2 == IF ~Has(p1, ERROR) THEN Set(p1, ERROR, PyDict(<< >>)) ELSE p1
      e1 == Set(Get(p2, ERROR).v, ERROR_MESSAGE, PyNone)
      e2 == Set(e1, ERROR_OFFSET, PyNone)
  IN  Set(p2, ERROR, PyDict(e2))

add_compile_keys_to_pattern(pattern) ==
  LET execute_in_pattern == Has(pattern, EXECUTE)
      popped == IF execute_in_pattern THEN Pop(pattern, EXECUTE) ELSE pattern
      p1 == Set(popped, COMPILE, PyBool(TRUE))
      p2 == IF ~Has(p1, ERROR) THEN Set(p1, ERROR, PyDict(<< >>)) ELSE p1
      e1 == Set(Get(p2, ERROR).v, ERROR_MESSAGE, PyNone)
      e2 == Set(e1, ERROR_OFFSET, PyNone)
      p3 == Set(p2, ERROR, PyDict(e2))
  IN  IF execute_in_pattern THEN Set(p3, EXECUTE, Get(pattern, EXECUTE)) ELSE p3

----------------------------------------------------------------------------
(* libpcre, as far as pcre.py calls it.  The library is not part of the     *)
(* repository: pcre_compile and pcre_exec are given for the pattern texts   *)
(* the documents of the model use, with the results libpcre 8 returns.      *)

RE_caret_a == <<94, 97>>  \* '^a'
RE_named == <<40, 63, 60, 120, 62, 97, 41, 124, 40, 63, 60, 121, 62, 98, 41>>  \* '(?<x>a)|(?<y>b)'
RE_dot == <<46>>  \* '.'
RE_mixed == <<40, 97, 41, 124, 40, 63, 60, 120, 62, 98, 41>>  \* '(a)|(?<x>b)'
RE_open == <<40>>  \* '('
RE_close == <<41>>  \* ')'
MSG_missing == <<109, 105, 115, 115, 105, 110, 103, 32, 41>>  \* 'missing )'
MSG_unmatched == <<117, 110, 109, 97, 116, 99, 104, 101, 100, 32, 112, 97, 114, 101,
                   110, 116, 104, 101, 115, 101, 115>>  \* 'unmatched parentheses'

BitSet(x, bit) == (x \div bit) % 2 = 1

\* pcre_compile(pattern, options, &err, &erroffset, NULL): NULL or a pcre *
pcre_compile(pattern, options) ==
  CASE pattern = RE_open -> [ok |-> FALSE, err |-> MSG_missing, erroffset |-> 1]
    [] pattern = RE_close -> [ok |-> FALSE, err |-> MSG_unmatched, erroffset |-> 0]
    [] OTHER -> [ok |-> TRUE, err |-> << >>, erroffset |-> 0]

\* pcre_fullinfo(code, PCRE_INFO_NAMETABLE ...): the (index, name) entries,
\* in the order of the table (sorted by name)
NameTableOf(pattern) ==
  IF pattern = RE_named THEN << <<1, "x">>, <<2, "y">> >>
  ELSE IF pattern = RE_mixed THEN << <<2, "x">> >>
  ELSE << >>

\* the offset pairs of the first match of the compiled pattern in the
\* subject, << >> when there is none; <<-1, -1>> for a group that is unset
FoldCase(c, caseless) == IF caseless THEN UpperCp(c) ELSE c
MatchAt(pattern, subject, p, caseless) ==
  LET c == FoldCase(subject[p], caseless)
      a == FoldCase(97, caseless)
      b == FoldCase(98, caseless)
  IN  CASE pattern = RE_caret_a ->
             IF p = 1 /\ c = a THEN << <<0, 1>> >> ELSE << >>
        [] pattern \in {RE_named, RE_mixed} ->
             IF c = a THEN << <<p - 1, p>>, <<p - 1, p>> >>
             ELSE IF c = b THEN << <<p - 1, p>>, <<-1, -1>>, <<p - 1, p>> >>
             ELSE << >>
        [] pattern = RE_dot ->
             IF c # 10 THEN << <<p - 1, p>> >> ELSE << >>
        [] OTHER -> << >>
MatchPairs(compiled, subject, options) ==
  LET anchored == BitSet(compiled.options, 16) \/ BitSet(options, 16)
      caseless == BitSet(compiled.options, 1)
      starts == IF anchored THEN {p \in 1..Len(subject) : p = 1} ELSE 1..Len(subject)
      hits == {p \in starts : MatchAt(compiled.pattern, subject, p, caseless) # << >>}
  IN  IF hits = {} THEN << >>
      ELSE MatchAt(compiled.pattern, subject,
                   CHOOSE p \in hits : \A q \in hits : p <= q, caseless)

\* pcre_exec(code, NULL, subject, length, 0, options, ovector, ovecsize): the
\* return code and the ovector it leaves.  Two thirds of the ovector hold
\* offset pairs; when they cannot hold every pair, the code is 0.
pcre_exec(compiled, subject, options, ovecsize) ==
  LET pairs == MatchPairs(compiled, subject, options)
      room == ovecsize \div 3
      kept == IF Len(pairs) > room THEN room ELSE Len(pairs)
      ovector == [j \in 1..ovecsize |->
                    IF (j + 1) \div 2 <= kept THEN pairs[(j + 1) \div 2][2 - (j % 2)] ELSE 0]
  IN  [rc |-> IF pairs = << >> THEN -1 ELSE IF Len(pairs) > room THEN 0 ELSE Len(pairs),
       ovector |-> ovector]

----------------------------------------------------------------------------
(* pcre.py: PCRELibrary *)

DefaultOvectorSize == 60
\* an offset vector with room for one offset pair only
SmallOvectorSize == 3

\* PCRELibrary(soname=None, encode='utf-8', decode='utf-8', ovector_size=60)
PCRELibrary(encode, decode, ovector_size) ==
  [encode |-> encode, decode |-> decode, ovector_size |-> ovector_size, libpcre |-> "none"]

\* get_lib: the library is loaded when it is not yet
get_lib(self) == [self EXCEPT !.libpcre = "loaded"]
\* a get_lib that calls ctypes.CDLL whether or not the library is loaded
Loads_Always(self) == <<"load">>
\* the ctypes.CDLL calls get_lib makes
Loads(self) == IF self.libpcre = "none" THEN <<"load">> ELSE << >>

\* an empty libpcre memory: text[h] is the pattern compiled under handle h
NoEngine == [text |-> << >>, live |-> {}]

\* compile(pattern, options): the handle, or PCRECompileException
compile(self, eng, pattern, options) ==
  LET r == pcre_compile(Encode(pattern.v, self.encode).val, options)
      h == Len(eng.text) + 1
  IN  IF ~r.ok
      THEN [out |-> Raise("PCRECompileException"),
            error |-> PyStr(Decode(r.err, "ascii").val), offset |-> PyInt(r.erroffset),
            engine |-> eng, handle |-> 0, err |-> r.err, erroffset |-> r.erroffset]
      ELSE [out |-> Return(h), error |-> PyNone, offset |-> PyNone,
            err |-> r.err, erroffset |-> r.erroffset,
            engine |-> [text |-> Append(eng.text, [pattern |-> Encode(pattern.v, self.encode).val,
                                                    options |-> options]),
                        live |-> eng.live \cup {h}],
            handle |-> h]

\* free(pcre_code)
free(self, eng, pcre_code) == [eng EXCEPT !.live = @ \ {pcre_code}]

\* faulty variant of get_capture: the offsets taken as positions in the
\* decoded string instead of in the encoded bytes
get_capture_of_characters(self, ovector, subject_bytes, index) ==
  LET start == ovector[index * 2 + 1]
      end == ovector[index * 2 + 2]
      decoded == Decode(subject_bytes, self.decode)
  IN  IF ~decoded.ok THEN decoded ELSE Return(Slice(decoded.val, start, end))

get_capture(self, ovector, subject_bytes, index) ==
  LET start == ovector[index * 2 + 1]
      end == ovector[index * 2 + 2]
  IN  Decode(Slice(subject_bytes, start, end), self.decode)

\* faulty variant of NameMatches: a name whose group is beyond the match
\* count gets the empty string
RECURSIVE NameMatches_Empty(_, _, _)
NameMatches_Empty(nametable, matches, name_matches) ==
  IF nametable = << >> THEN name_matches
  ELSE LET index == Head(nametable)[1]
           name == Head(nametable)[2]
           found == ListIndex(matches, index)
       IN  NameMatches_Empty(Tail(nametable), matches,
                             Set(name_matches, name,
                                 IF found.ok THEN found.val ELSE PyStr(<< >>)))

\* name_matches after the loop over the name table
RECURSIVE NameMatches(_, _, _)
NameMatches(nametable, matches, name_matches) ==
  IF nametable = << >> THEN name_matches
  ELSE LET index == Head(nametable)[1]
           name == Head(nametable)[2]
           found == ListIndex(matches, index)
       IN  NameMatches(Tail(nametable), matches,
                       Set(name_matches, name, IF found.ok THEN found.val ELSE PyNone))

\* get_captures(pcre_code, subject_bytes, ovector, match_count), the name
\* table of pcre_code given
get_captures(self, nametable, subject_bytes, ovector, match_count) ==
  LET captures == [i \in 1..match_count |-> get_capture(self, ovector, subject_bytes, i - 1)]
      matches == [i \in 1..match_count |-> PyStr(captures[i].val)]
  IN  IF \E i \in 1..match_count : ~captures[i].ok THEN Raise("UnicodeDecodeError")
      ELSE Return(PyDict(<< <<"by_index", PyList(matches)>>,
                            <<"by_name", PyDict(NameMatches(nametable, matches, << >>))>> >>))

\* bytes(ctypes.c_char_p(b).value): the bytes before the first zero byte, all
\* of them when there is none (a bytes object ends with a zero of its own)
RECURSIVE CString(_)
CString(b) ==
  IF b = << >> \/ Head(b) = 0 THEN << >> ELSE <<Head(b)>> \o CString(Tail(b))

\* faulty variant of nametable_entry: the index is read low byte first
nametable_entry_low_byte_first(entry) ==
  LET index == entry[1] + 256 * entry[2]
      name == Decode(CString(SubSeq(entry, 3, Len(entry))), "ascii")
  IN  IF ~name.ok THEN name ELSE Return(PyTuple(<<PyInt(index), PyStr(name.val)>>))

\* nametable_entry(entry): (index, name) of an entry of at least two bytes
nametable_entry(entry) ==
  LET index == 256 * entry[1] + entry[2]
      name == Decode(CString(SubSeq(entry, 3, Len(entry))), "ascii")
  IN  IF ~name.ok THEN name ELSE Return(PyTuple(<<PyInt(index), PyStr(name.val)>>))

\* the str of a name of the name table (nametable_entry decodes it as ascii)
NameText(name) == IF name = "x" THEN <<120>> ELSE <<121>>

\* the list of ordered_nametable after the loop over the name table
RECURSIVE OrderedNames(_, _)
OrderedNames(nametable, ordered) ==
  IF nametable = << >> THEN Return(PyList(ordered))
  ELSE LET index == Head(nametable)[1]
           name == Head(nametable)[2]
       IN  IF index + 1 > Len(ordered) THEN Raise("IndexError")
           ELSE OrderedNames(Tail(nametable), [ordered EXCEPT ![index + 1] = PyStr(NameText(name))])

\* ordered_nametable(pcre_code), the name table of pcre_code given
ordered_nametable(self, nametable) ==
  OrderedNames(nametable, [i \in 1..(Len(nametable) + 1) |-> PyNone])

\* faulty variant of exec: only a negative return code of pcre_exec gives False
exec_of_negative_codes(self, eng, pcre_code, subject, exec_options) ==
  LET subject_bytes == Encode(subject.v, self.encode).val
      compiled == IF pcre_code \in 1..Len(eng.text) THEN eng.text[pcre_code]
                  ELSE [pattern |-> << >>, options |-> 0]
      r == pcre_exec(compiled, subject_bytes, exec_options, self.ovector_size)
  IN  IF r.rc < 0 THEN Return(PyBool(FALSE))
      ELSE get_captures(self, NameTableOf(compiled.pattern), subject_bytes, r.ovector, r.rc)

\* exec(pcre_code, subject, exec_options): False, or the captures
exec(self, eng, pcre_code, subject, exec_options) ==
  LET subject_bytes == Encode(subject.v, self.encode).val
      \* a pointer libpcre did not return reads as a pattern that matches nothing
      compiled == IF pcre_code \in 1..Len(eng.text) THEN eng.text[pcre_code]
                  ELSE [pattern |-> << >>, options |-> 0]
      r == pcre_exec(compiled, subject_bytes, exec_options, self.ovector_size)
  IN  IF r.rc < 1 THEN Return(PyBool(FALSE))
      ELSE get_captures(self, NameTableOf(compiled.pattern), subject_bytes, r.ovector, r.rc)

\* match(pattern, subject, compile_options, exec_options): what it returns
\* or raises, libpcre's memory after it, and the calls it made into libpcre
match(self, eng, pattern, subject, compile_options, exec_options) ==
  LET compiled == compile(self, eng, pattern, compile_options)
      code_ == compiled.handle
      res_ == exec(self, compiled.engine, code_, subject, exec_options)
  IN  IF ~compiled.out.ok
      THEN [out |-> compiled.out, engine |-> eng, calls |-> <<[op |-> "compile", handle |-> 0, ok |-> FALSE]>>]
      ELSE IF ~res_.ok
      THEN [out |-> res_, engine |-> compiled.engine,
            calls |-> <<[op |-> "compile", handle |-> code_, ok |-> TRUE],
                        [op |-> "exec", handle |-> code_, ok |-> FALSE]>>]
      ELSE [out |-> res_, engine |-> free(self, compiled.engine, code_),
            calls |-> <<[op |-> "compile", handle |-> code_, ok |-> TRUE],
                        [op |-> "exec", handle |-> code_, ok |-> TRUE],
                        [op |-> "free", handle |-> code_, ok |-> TRUE]>>]
----------------------------------------------------------------------------
(* util.py: process(doc, **pcre_library_args), one action per step *)

\* doc.get(key, []) of a reference list
Reference(key) == GetOr(doc, key, PyList(<< >>)).v
pattern_strings == Reference(REFERENCE_PATTERN_STRINGS)
subject_strings == Reference(REFERENCE_SUBJECT_STRINGS)
compile_options == Reference(REFERENCE_COMPILE_OPTIONS)
execute_options == Reference(REFERENCE_EXECUTE_OPTIONS)

\* doc[PATTERNS]
Patterns == Get(doc, PATTERNS).v
\* the document with pattern i replaced (the pattern dict is changed in place)
WithPattern(i, pattern) == Set(doc, PATTERNS, PyList([Patterns EXCEPT ![i] = pattern]))
\* pattern.get(EXECUTE, []): the Execution dicts of a pattern
ExecutionsOf(pattern, h) == IF Has(pattern, EXECUTE) THEN h[Get(pattern, EXECUTE).v] ELSE << >>

\* a call into libpcre: the pattern and Execution process was at, the handle
\* passed or returned, the option bits, whether it succeeded, and the error
\* message and offset pcre_compile gave
Call(op, pat, exe, handle, bits, ok) ==
  [op |-> op, pat |-> pat, exe |-> exe, handle |-> handle, bits |-> bits, ok |-> ok,
   err |-> << >>, erroffset |-> 0]
LoadCalls(self, pat) ==
  IF Loads(self) = << >> THEN << >> ELSE <<Call("load", pat, 0, 0, 0, TRUE)>>

\* a process that makes and loads the library before it looks for patterns
ProcessNothingToDo_AfterLoad ==
  /\ pc = "idle"
  /\ ~Has(doc, PATTERNS)
  /\ lib' = get_lib(lib)
  /\ calls' = calls \o LoadCalls(lib, 0)
  /\ pc' = "returned"
  /\ UNCHANGED <<doc, heap, doc0, heap0, pi, ei, code, engine, failure, warnings>>

\* line 141: a document without patterns is returned as it is
ProcessNothingToDo ==
  /\ pc = "idle"
  /\ ~Has(doc, PATTERNS)
  /\ pc' = "returned"
  /\ UNCHANGED <<doc, heap, doc0, heap0, pi, ei, code, lib, engine, calls, failure, warnings>>

\* lines 145-152: the library object is made, with the default size of the
\* offset vector or with ovector_size given in pcre_library_args, and the
\* loop starts
ProcessStart ==
  /\ pc = "idle"
  /\ Has(doc, PATTERNS)
  /\ \E ovector_size \in {DefaultOvectorSize, SmallOvectorSize} :
       lib' = PCRELibrary("utf-8", "utf-8", ovector_size)
  /\ pc' = "loop"
  /\ pi' = 1
  /\ UNCHANGED <<doc, heap, doc0, heap0, ei, code, engine, calls, failure, warnings>>

\* lines 154-156 for the pattern the loop is at
Prepared == add_compile_keys_to_pattern(Patterns[pi])
PatternValue == get_value(Prepared, PATTERN_VALUE, pattern_strings, PyNone)
\* faulty variant of PatternOptions: no default is given
PatternOptions_NoDefault == get_value(Prepared, COMPILE_OPTIONS, compile_options, PyNone)
PatternOptions == get_value(Prepared, COMPILE_OPTIONS, compile_options, PyList(<< >>))
CompileBits == or_options(extract_option_values(PatternOptions.val), 0)
Compiled == compile(lib, engine, PatternValue.val, CompileBits)

\* lines 155-156: a reference that does not resolve leaves process
CompileRaise ==
  /\ pc = "loop"
  /\ pi <= Len(Patterns)
  /\ ~PatternValue.ok \/ ~PatternOptions.ok
  /\ doc' = WithPattern(pi, Prepared)
  /\ pc' = "raised"
  /\ failure' = [kind |-> IF ~PatternValue.ok THEN PatternValue.exc ELSE PatternOptions.exc,
                 at |-> "compile"]
  /\ UNCHANGED <<heap, doc0, heap0, pi, ei, code, lib, engine, calls, warnings>>

\* lines 157-158, 163, 166: the pattern compiles
CompileOk ==
  /\ pc = "loop"
  /\ pi <= Len(Patterns)
  /\ PatternValue.ok /\ PatternOptions.ok
  /\ Compiled.out.ok
  /\ doc' = WithPattern(pi, Prepared)
  /\ code' = Compiled.out.val
  /\ lib' = get_lib(lib)
  /\ engine' = Compiled.engine
  /\ calls' = calls \o LoadCalls(lib, pi)
                 \o <<Call("compile", pi, 0, Compiled.handle, CompileBits, TRUE)>>
  /\ warnings' = warnings \o option_warnings(PatternOptions.val)
  /\ pc' = "exec"
  /\ ei' = 1
  /\ UNCHANGED <<heap, doc0, heap0, pi, failure>>

\* faulty variant of CompileFail: the `continue` of line 164 is missing, the
\* Execution loop runs with whatever `code` holds
CompileFail_NoContinue ==
  /\ pc = "loop"
  /\ pi <= Len(Patterns)
  /\ PatternValue.ok /\ PatternOptions.ok
  /\ ~Compiled.out.ok
  /\ doc' = WithPattern(pi,
              Set(Set(Prepared, COMPILE, PyBool(FALSE)), ERROR,
                  PyDict(Set(Set(Get(Prepared, ERROR).v, ERROR_MESSAGE, Compiled.error),
                             ERROR_OFFSET, Compiled.offset))))
  /\ lib' = get_lib(lib)
  /\ calls' = calls \o LoadCalls(lib, pi)
                 \o <<[Call("compile", pi, 0, 0, CompileBits, FALSE) EXCEPT
                        !.err = Compiled.err, !.erroffset = Compiled.erroffset]>>
  /\ warnings' = warnings \o option_warnings(PatternOptions.val)
  /\ pc' = "exec"
  /\ ei' = 1
  /\ UNCHANGED <<heap, doc0, heap0, pi, code, engine, failure>>

\* faulty variant of CompileFail: PCRECompileException is not caught
CompileFail_Uncaught ==
  /\ pc = "loop"
  /\ pi <= Len(Patterns)
  /\ PatternValue.ok /\ PatternOptions.ok
  /\ ~Compiled.out.ok
  /\ doc' = WithPattern(pi, Prepared)
  /\ lib' = get_lib(lib)
  /\ calls' = calls \o LoadCalls(lib, pi)
                 \o <<[Call("compile", pi, 0, 0, CompileBits, FALSE) EXCEPT
                        !.err = Compiled.err, !.erroffset = Compiled.erroffset]>>
  /\ warnings' = warnings \o option_warnings(PatternOptions.val)
  /\ pc' = "raised"
  /\ failure' = [kind |-> "PCRECompileException", at |-> "compile"]
  /\ UNCHANGED <<heap, doc0, heap0, pi, ei, code, engine>>

\* lines 159-164: the compile error is written into the pattern, and the
\* loop goes on with the next pattern
CompileFail ==
  /\ pc = "loop"
  /\ pi <= Len(Patterns)
  /\ PatternValue.ok /\ PatternOptions.ok
  /\ ~Compiled.out.ok
  /\ doc' = WithPattern(pi,
              Set(Set(Prepared, COMPILE, PyBool(FALSE)), ERROR,
                  PyDict(Set(Set(Get(Prepared, ERROR).v, ERROR_MESSAGE, Compiled.error),
                             ERROR_OFFSET, Compiled.offset))))
  /\ lib' = get_lib(lib)
  /\ calls' = calls \o LoadCalls(lib, pi)
                 \o <<[Call("compile", pi, 0, 0, CompileBits, FALSE) EXCEPT
                        !.err = Compiled.err, !.erroffset = Compiled.erroffset]>>
  /\ warnings' = warnings \o option_warnings(PatternOptions.val)
  /\ pc' = "loop"
  /\ pi' = pi + 1
  /\ UNCHANGED <<heap, doc0, heap0, ei, code, engine, failure>>

\* lines 166-169 for the Execution the inner loop is at
Executions == ExecutionsOf(Patterns[pi], heap)
Subject == get_value(Executions[ei], SUBJECT, subject_strings, PyNone)
ExecuteOptions == get_value(Executions[ei], EXECUTE_OPTIONS, execute_options, PyList(<< >>))
ExecBits == or_options(extract_option_values(ExecuteOptions.val), 0)
exe_result == exec(lib, engine, code, Subject.val, ExecBits)

\* lines 167-169: a reference that does not resolve, or a capture that does
\* not decode, leaves process
ExecRaise ==
  /\ pc = "exec"
  /\ ei <= Len(Executions)
  /\ IF Subject.ok /\ ExecuteOptions.ok
     THEN /\ ~exe_result.ok
          /\ failure' = [kind |-> exe_result.exc, at |-> "exec"]
          /\ calls' = Append(calls, Call("exec", pi, ei, code, ExecBits, FALSE))
          /\ warnings' = warnings \o option_warnings(ExecuteOptions.val)
     ELSE /\ failure' = [kind |-> IF ~Subject.ok THEN Subject.exc ELSE ExecuteOptions.exc,
                         at |-> "exec"]
          /\ UNCHANGED <<calls, warnings>>
  /\ pc' = "raised"
  /\ UNCHANGED <<doc, heap, doc0, heap0, pi, ei, code, lib, engine>>

\* faulty variant of ExecOk: captures is what exec returned, False included
ExecOk_RawResult ==
  /\ pc = "exec"
  /\ ei <= Len(Executions)
  /\ Subject.ok /\ ExecuteOptions.ok
  /\ exe_result.ok
  /\ heap' = [heap EXCEPT ![Get(Patterns[pi], EXECUTE).v][ei] =
                Set(Set(@, MATCH, PyBool(Truthy(exe_result.val))), CAPTURES, exe_result.val)]
  /\ calls' = Append(calls, Call("exec", pi, ei, code, ExecBits, TRUE))
  /\ warnings' = warnings \o option_warnings(ExecuteOptions.val)
  /\ ei' = ei + 1
  /\ UNCHANGED <<doc, doc0, heap0, pc, pi, code, lib, engine, failure>>

\* lines 167-171: the Execution gets its match and captures
ExecOk ==
  /\ pc = "exec"
  /\ ei <= Len(Executions)
  /\ Subject.ok /\ ExecuteOptions.ok
  /\ exe_result.ok
  /\ heap' = [heap EXCEPT ![Get(Patterns[pi], EXECUTE).v][ei] =
                Set(Set(@, MATCH, PyBool(Truthy(exe_result.val))), CAPTURES,
                    IF Truthy(exe_result.val) THEN exe_result.val ELSE PyDict(<< >>))]
  /\ calls' = Append(calls, Call("exec", pi, ei, code, ExecBits, TRUE))
  /\ warnings' = warnings \o option_warnings(ExecuteOptions.val)
  /\ ei' = ei + 1
  /\ UNCHANGED <<doc, doc0, heap0, pc, pi, code, lib, engine, failure>>

\* faulty variant of Free: the loop goes on to the next pattern and the
\* compiled pattern is kept
Free_Skipped ==
  /\ pc = "exec"
  /\ ei > Len(Executions)
  /\ pc' = "loop"
  /\ pi' = pi + 1
  /\ UNCHANGED <<doc, heap, doc0, heap0, ei, code, lib, engine, calls, failure, warnings>>

\* line 172: after the last Execution the compiled pattern is freed
Free ==
  /\ pc = "exec"
  /\ ei > Len(Executions)
  /\ engine' = free(lib, engine, code)
  /\ calls' = Append(calls, Call("free", pi, 0, code, 0, TRUE))
  /\ pc' = "loop"
  /\ pi' = pi + 1
  /\ UNCHANGED <<doc, heap, doc0, heap0, ei, code, lib, failure, warnings>>

\* line 173
ProcessReturn ==
  /\ pc = "loop"
  /\ pi > Len(Patterns)
  /\ pc' = "returned"
  /\ UNCHANGED <<doc, heap, doc0, heap0, pi, ei, code, lib, engine, calls, failure, warnings>>

----------------------------------------------------------------------------
(* The documents process is run on *)

S_a == <<97>>  \* 'a'
S_b == <<98>>  \* 'b'
S_eacute == <<233>>  \* U+00E9, two bytes in UTF-8
S_caseless == <<99, 97, 115, 101, 108, 101, 115, 115>>  \* 'caseless'
S_anchored == <<97, 110, 99, 104, 111, 114, 101, 100>>  \* 'anchored'
S_bogus_notempty == <<32, 98, 111, 103, 117, 115, 32, 124, 32, 110, 111, 116, 101, 109,
                      112, 116, 121>>  \* ' bogus | notempty'
S_old == <<111, 108, 100>>  \* 'old'

\* compile and error keys as an earlier run of process leaves them
StaleOk == PyDict(<< <<ERROR_MESSAGE, PyNone>>, <<ERROR_OFFSET, PyNone>> >>)
StaleError == PyDict(<< <<ERROR_MESSAGE, PyStr(S_old)>>, <<ERROR_OFFSET, PyInt(7)>> >>)

\* Patterns: literal and referenced values and options, present or missing
\* or out of range, with and without the keys of an earlier run.  Patterns
\* that hold Ref(1) share one execute list, as DocumentFactory1n builds them.
PatternShapes ==
  { << <<PATTERN_VALUE, PyStr(RE_caret_a)>>, <<EXECUTE, PyRef(1)>> >>,
    << <<PATTERN_VALUE, PyInt(0)>>, <<COMPILE_OPTIONS, PyInt(0)>>, <<EXECUTE, PyRef(1)>> >>,
    << <<PATTERN_VALUE, PyStr(RE_open)>>, <<COMPILE_OPTIONS, PyStr(S_bogus_notempty)>>,
       <<COMPILE, PyBool(TRUE)>>, <<ERROR, StaleOk>>, <<EXECUTE, PyRef(1)>> >>,
    << <<PATTERN_VALUE, PyStr(RE_dot)>>, <<EXECUTE, PyRef(2)>> >>,
    << <<PATTERN_VALUE, PyStr(RE_close)>>, <<COMPILE, PyBool(FALSE)>>, <<ERROR, StaleError>> >>,
    << <<EXECUTE, PyRef(2)>>, <<COMPILE, PyBool(FALSE)>>, <<ERROR, StaleError>>,
       <<PATTERN_VALUE, PyStr(RE_caret_a)>>, <<COMPILE_OPTIONS, PyInt(5)>> >>,
    << <<COMPILE_OPTIONS, PyStr(S_caseless)>>, <<EXECUTE, PyRef(1)>> >>,
    << <<PATTERN_VALUE, PyInt(7)>>, <<EXECUTE, PyRef(1)>> >> }

ExecutionShapes ==
  { << <<SUBJECT, PyStr(S_a)>> >>,
    << <<SUBJECT, PyInt(1)>>, <<EXECUTE_OPTIONS, PyInt(0)>> >>,
    << <<SUBJECT, PyStr(S_eacute)>>, <<EXECUTE_OPTIONS, PyStr(S_bogus_notempty)>>,
       <<MATCH, PyBool(TRUE)>>, <<CAPTURES, PyDict(<< >>)>> >>,
    << <<EXECUTE_OPTIONS, PyStr(S_anchored)>> >>,
    << <<SUBJECT, PyInt(9)>> >> }

SeqsUpTo(S, n) == UNION {[1..m -> S] : m \in 0..n}

\* a document with reference lists (execute_options is left out: process
\* reads it with doc.get(key, [])) and with the given patterns
DocumentOf(patterns) ==
  << <<"meta", PyNone>>,
     <<REFERENCE_COMPILE_OPTIONS, PyList(<<PyStr(S_caseless)>>)>>,
     <<REFERENCE_PATTERN_STRINGS, PyList(<<PyStr(RE_named), PyStr(RE_open)>>)>>,
     <<REFERENCE_SUBJECT_STRINGS, PyList(<<PyStr(S_a), PyStr(S_b)>>)>>,
     <<PATTERNS, PyList(patterns)>> >>

Documents ==
  {DocumentOf(patterns) : patterns \in SeqsUpTo(PatternShapes, MaxPatterns)}
    \cup { << <<"meta", PyNone>> >> }

\* the execute lists: list 1 is any list of the bound, list 2 is ['a', U+00E9]
Heaps ==
  { <<list1, << << <<SUBJECT, PyStr(S_a)>> >>, << <<SUBJECT, PyStr(S_eacute)>> >> >> >> :
      list1 \in SeqsUpTo(ExecutionShapes, MaxExecs) }

\* DocumentFactory1n(subject), add_pattern(p) for each p of patterns, then
\* make_doc(): the patterns hold one and the same execute list, whose only
\* Execution refers to the subject by its index
DocumentFactory1n(subject, patterns) ==
  [doc |-> << <<"meta", PyNone>>,
              <<REFERENCE_SUBJECT_STRINGS, PyList(<<PyStr(subject)>>)>>,
              <<PATTERNS, PyList([i \in 1..Len(patterns) |->
                                   << <<PATTERN_VALUE, PyStr(patterns[i])>>,
                                      <<EXECUTE, PyRef(1)>> >>])>> >>,
   heap |-> << << << <<SUBJECT, PyInt(0)>> >> >> >>]
Factory1nDocuments ==
  {DocumentFactory1n(subject, patterns) :
     subject \in {S_a, S_b}, patterns \in SeqsUpTo({RE_caret_a, RE_dot, RE_open}, MaxPatterns)}

NoFailure == [kind |-> "none", at |-> "none"]
Pending == [ok |-> FALSE, val |-> PyNone, exc |-> "pending"]

Init ==
  /\ \/ doc \in Documents /\ heap \in Heaps
     \/ \E f \in Factory1nDocuments : doc = f.doc /\ heap = f.heap
  /\ doc0 = doc
  /\ heap0 = heap
  /\ pc = "idle"
  /\ pi = 0
  /\ ei = 0
  /\ code = 0
  /\ lib = PCRELibrary("utf-8", "utf-8", DefaultOvectorSize)
  /\ engine = NoEngine
  /\ calls = << >>
  /\ failure = NoFailure
  /\ warnings = << >>
  /\ fn = "none"
  /\ arg = << >>
  /\ res = Pending

Next ==
  \/ ProcessNothingToDo /\ UNCHANGED fnVars
  \/ ProcessStart /\ UNCHANGED fnVars
  \/ CompileRaise /\ UNCHANGED fnVars
  \/ CompileOk /\ UNCHANGED fnVars
  \/ CompileFail /\ UNCHANGED fnVars
  \/ ExecRaise /\ UNCHANGED fnVars
  \/ ExecOk /\ UNCHANGED fnVars
  \/ Free /\ UNCHANGED fnVars
  \/ ProcessReturn /\ UNCHANGED fnVars

Spec == Init /\ [][Next]_vars

----------------------------------------------------------------------------
(* The functions on their own: Init draws the arguments, one action applies *)
(* the function.                                                            *)

\* get_value(obj, 'k', reference, default)
GetValueArgs ==
  LET values == {PyStr(S_a), PyList(<<PyStr(S_a)>>), PyBool(TRUE), PyBool(FALSE)}
                  \cup {PyInt(n) : n \in (0 - MaxReference - 1)..(MaxReference + 1)}
      objs == { << <<"other", PyInt(0)>> >> }
                \cup { << <<"k", v>>, <<"other", PyInt(0)>> >> : v \in values }
      references == { [i \in 1..n |-> PyStr(<<100 + i>>)] : n \in 0..MaxReference }
      defaults == {PyNone, PyStr(S_old), PyList(<< >>)}
  IN  { [obj |-> o, key |-> "k", reference |-> r, default |-> d] :
          o \in objs, r \in references, d \in defaults }

\* the dicts with the given keys in every order
Orderings(keys) ==
  {s \in [1..Cardinality(keys) -> keys] : \A i, j \in 1..Cardinality(keys) : s[i] = s[j] => i = j}
PatternKeys == {PATTERN_VALUE, EXECUTE, COMPILE, ERROR, "meta"}
\* add_compile_keys_to_pattern(pattern): the keys a pattern may have, in
\* every order, compile and error as an earlier run may have left them
AddCompileKeysArgs ==
  LET valueOf(key, stale) ==
        CASE key = PATTERN_VALUE -> PyStr(RE_caret_a)
          [] key = EXECUTE -> PyRef(1)
          [] key = COMPILE -> PyBool(stale)
          [] key = ERROR -> IF stale THEN StaleOk ELSE StaleError
          [] OTHER -> PyNone
  IN  { [pattern |-> [i \in 1..Len(order) |-> <<order[i], valueOf(order[i], stale)>>]] :
          order \in UNION {Orderings(keys) : keys \in SUBSET PatternKeys},
          stale \in BOOLEAN }

\* get_captures(pcre_code, subject_bytes, ovector, match_count): a subject
\* of two bytes, every offset pair libpcre can leave for each group (unset,
\* or 0 <= start <= end <= length), every naming of the groups, the same
\* name on two groups included (PCRE_DUPNAMES)
OffsetPairs(len) == {<<-1, -1>>} \cup {p \in (0..len) \X (0..len) : p[1] <= p[2]}
GroupNames == {"", "x", "y"}
\* the name table libpcre builds: the named groups, sorted by name, then by number
RECURSIVE EntriesOf(_, _, _)
EntriesOf(naming, name, from) ==
  IF from > Len(naming) THEN << >>
  ELSE (IF naming[from] = name THEN << <<from, name>> >> ELSE << >>)
       \o EntriesOf(naming, name, from + 1)
NameTableFor(naming) == EntriesOf(naming, "x", 1) \o EntriesOf(naming, "y", 1)
Flatten(pairs, size) ==
  [j \in 1..size |-> IF (j + 1) \div 2 <= Len(pairs) THEN pairs[(j + 1) \div 2][2 - (j % 2)] ELSE 0]
GetCapturesArgs ==
  { [nametable |-> NameTableFor(naming),
     subject_bytes |-> subject,
     ovector |-> Flatten(pairs, 3 * (MaxGroups + 1)),
     match_count |-> Len(pairs)] :
      naming \in [1..MaxGroups -> GroupNames],
      subject \in {<<97, 98>>, <<195, 169>>},
      pairs \in {q \in UNION {[1..m -> OffsetPairs(2)] : m \in 1..(MaxGroups + 1)} :
                   q[1] # <<-1, -1>>} }

\* nametable_entry(entry): the entries libpcre writes, two index bytes, a
\* name of letters, digits and underscores, a zero byte, and whatever
\* fills the entry up to the entry size
NametableEntryArgs ==
  LET names == UNION {[1..n -> {97, 95, 48}] : n \in 0..MaxNameLen}
      fills == UNION {[1..n -> {0, 120, 200}] : n \in 0..2}
  IN  { [entry |-> <<hi, lo>> \o name \o <<0>> \o fill] :
          hi \in {0, 1, 255}, lo \in {0, 1, 255}, name \in names, fill \in fills }

InitFn ==
  /\ \/ fn = "get_value" /\ arg \in GetValueArgs
     \/ fn = "add_compile_keys_to_pattern" /\ arg \in AddCompileKeysArgs
     \/ fn = "get_captures" /\ arg \in GetCapturesArgs
     \/ fn = "nametable_entry" /\ arg \in NametableEntryArgs
  /\ res = Pending
  /\ doc = << >>
  /\ heap = << >>
  /\ doc0 = << >>
  /\ heap0 = << >>
  /\ pc = "fn"
  /\ pi = 0
  /\ ei = 0
  /\ code = 0
  /\ lib = PCRELibrary("utf-8", "utf-8", DefaultOvectorSize)
  /\ engine = NoEngine
  /\ calls = << >>
  /\ failure = NoFailure
  /\ warnings = << >>

ApplyGetValue ==
  /\ fn = "get_value"
  /\ res = Pending
  /\ res' = get_value(arg.obj, arg.key, arg.reference, arg.default)
  /\ UNCHANGED <<fn, arg>>

ApplyAddCompileKeys ==
  /\ fn = "add_compile_keys_to_pattern"
  /\ res = Pending
  /\ res' = Return(PyDict(add_compile_keys_to_pattern(arg.pattern)))
  /\ UNCHANGED <<fn, arg>>

ApplyGetCaptures ==
  /\ fn = "get_captures"
  /\ res = Pending
  /\ res' = get_captures(lib, arg.nametable, arg.subject_bytes, arg.ovector, arg.match_count)
  /\ UNCHANGED <<fn, arg>>

ApplyNametableEntry ==
  /\ fn = "nametable_entry"
  /\ res = Pending
  /\ res' = nametable_entry(arg.entry)
  /\ UNCHANGED <<fn, arg>>

NextFn ==
  \/ ApplyGetValue /\ UNCHANGED procVars
  \/ ApplyAddCompileKeys /\ UNCHANGED procVars
  \/ ApplyGetCaptures /\ UNCHANGED procVars
  \/ ApplyNametableEntry /\ UNCHANGED procVars

SpecFn == InitFn /\ [][NextFn]_vars

Finished == res # Pending

----------------------------------------------------------------------------
(* Properties of process *)

Terminated == pc \in {"returned", "raised"}
CallIds == 1..Len(calls)
CompiledOkAt(j) == calls[j].op = "compile" /\ calls[j].ok
CompileFailedAt(j) == calls[j].op = "compile" /\ ~calls[j].ok
FreesOf(handle) == {m \in CallIds : calls[m].op = "free" /\ calls[m].handle = handle}
ExecsFor(pat) == {m \in CallIds : calls[m].op = "exec" /\ calls[m].pat = pat}
CompilesFor(pat) == {m \in CallIds : calls[m].op = "compile" /\ calls[m].pat = pat}

\* obj[key] is there and, when an integer, an index Python accepts for the list
Resolves(obj, key, reference) ==
  /\ Has(obj, key)
  /\ Get(obj, key).k \in {"int", "bool"} =>
       LET n == IF Get(obj, key).k = "int" THEN Get(obj, key).v
                ELSE IF Get(obj, key).v THEN 1 ELSE 0
       IN  n < Len(reference) /\ n >= 0 - Len(reference)

\* C1: when process has returned or raised, every handle a successful
\* compile returned has been passed to free exactly once, and free was
\* called on nothing else.
C1_EveryHandleFreedOnce ==
  /\ Terminated =>
       \A j \in CallIds : CompiledOkAt(j) => Cardinality(FreesOf(calls[j].handle)) = 1
  /\ \A m \in CallIds : calls[m].op = "free" =>
       \E j \in 1..(m - 1) : CompiledOkAt(j) /\ calls[j].handle = calls[m].handle

\* what the code does keep: a run that returns has freed every handle once,
\* and no handle is freed twice or without having been compiled
FreedOnceOnReturn ==
  /\ pc = "returned" =>
       \A j \in CallIds : CompiledOkAt(j) => Cardinality(FreesOf(calls[j].handle)) = 1
  /\ \A j \in CallIds : CompiledOkAt(j) => Cardinality(FreesOf(calls[j].handle)) <= 1
  /\ \A m \in CallIds : calls[m].op = "free" =>
       \E j \in 1..(m - 1) : CompiledOkAt(j) /\ calls[j].handle = calls[m].handle

\* C2: when process has returned, the Executions of every pattern whose
\* compile failed are as they were when process was called, and no exec
\* call was made for such a pattern.
C2_FailedPatternExecutionsUntouched ==
  pc = "returned" =>
    \A j \in CallIds : CompileFailedAt(j) =>
      /\ ExecutionsOf(Patterns[calls[j].pat], heap)
           = ExecutionsOf(Get(doc0, PATTERNS).v[calls[j].pat], heap0)
      /\ ExecsFor(calls[j].pat) = {}

\* what the code does keep: no exec call is made for a pattern that failed
\* to compile, and its Executions are as they were unless its execute list
\* is also the execute list of another pattern
NoExecForFailedPattern ==
  /\ \A j \in CallIds : CompileFailedAt(j) => ExecsFor(calls[j].pat) = {}
  /\ pc = "returned" =>
       \A j \in CallIds : CompileFailedAt(j) =>
         \/ ExecutionsOf(Patterns[calls[j].pat], heap)
              = ExecutionsOf(Get(doc0, PATTERNS).v[calls[j].pat], heap0)
         \/ \E i \in 1..Len(Patterns) :
              /\ i # calls[j].pat
              /\ Has(Patterns[i], EXECUTE) /\ Has(Patterns[calls[j].pat], EXECUTE)
              /\ Get(Patterns[i], EXECUTE) = Get(Patterns[calls[j].pat], EXECUTE)

\* C3: every exec and free call uses the handle that the successful compile
\* of the same pattern returned, and that handle has not been freed before
\* the call.
C3_CallsUseOwnLiveHandle ==
  \A m \in CallIds : calls[m].op \in {"exec", "free"} =>
    \E j \in 1..(m - 1) :
      /\ CompiledOkAt(j)
      /\ calls[j].pat = calls[m].pat
      /\ calls[j].handle = calls[m].handle
      /\ \A f \in (j + 1)..(m - 1) :
           ~(calls[f].op = "free" /\ calls[f].handle = calls[m].handle)

\* a pattern failed to compile after another was compiled, executed and
\* freed, and process went on to its end
C3_Witness ==
  /\ pc = "returned"
  /\ \E f, j \in CallIds :
       f < j /\ calls[f].op = "free" /\ CompileFailedAt(j) /\ ExecsFor(calls[f].pat) # {}

\* C4: a compile failure does not leave process as an exception: it is
\* written into the pattern (compile false, message and offset set), every
\* pattern the loop has passed was compiled once and, when it compiled,
\* executed on each of its Executions, and a run that returns has passed
\* every pattern.
C4_CompileFailureDoesNotAbort ==
  /\ failure.kind # "PCRECompileException"
  /\ \A j \in CallIds : CompileFailedAt(j) =>
       LET pattern == Patterns[calls[j].pat]
       IN  /\ Get(pattern, COMPILE) = PyBool(FALSE)
           /\ Get(Get(pattern, ERROR).v, ERROR_MESSAGE).k = "str"
           /\ Get(Get(pattern, ERROR).v, ERROR_OFFSET).k = "int"
  /\ pc \in {"loop", "exec", "returned", "raised"} /\ Has(doc, PATTERNS) =>
       \A i \in 1..Len(Patterns) : i < pi =>
         /\ Cardinality(CompilesFor(i)) = 1
         /\ \A j \in CompilesFor(i) : calls[j].ok =>
              Cardinality(ExecsFor(i)) = Len(ExecutionsOf(Patterns[i], heap))
  /\ pc = "returned" /\ Has(doc, PATTERNS) => pi = Len(Patterns) + 1

\* a pattern failed to compile, a later pattern compiled and was executed,
\* and process returned
C4_Witness ==
  /\ pc = "returned"
  /\ \E j, m \in CallIds : j < m /\ CompileFailedAt(j) /\ calls[m].op = "exec"

\* C5: when process has returned, every pattern has a boolean compile; when
\* it is true, error.message and error.offset are None; when it is false,
\* they are the message and the offset pcre_compile gave for this pattern.
C5_CompileAndErrorAgree ==
  pc = "returned" /\ Has(doc, PATTERNS) =>
    \A i \in 1..Len(Patterns) :
      LET pattern == Patterns[i]
          error == Get(pattern, ERROR).v
      IN  /\ Has(pattern, COMPILE) /\ Has(pattern, ERROR)
          /\ Get(pattern, COMPILE).k = "bool"
          /\ Has(error, ERROR_MESSAGE) /\ Has(error, ERROR_OFFSET)
          /\ Get(pattern, COMPILE).v =>
               /\ Get(error, ERROR_MESSAGE) = PyNone
               /\ Get(error, ERROR_OFFSET) = PyNone
               /\ \E j \in CompilesFor(i) : calls[j].ok
          /\ ~Get(pattern, COMPILE).v =>
               \E j \in CompilesFor(i) :
                 /\ ~calls[j].ok
                 /\ Get(error, ERROR_MESSAGE) = PyStr(calls[j].err)
                 /\ Get(error, ERROR_OFFSET) = PyInt(calls[j].erroffset)

\* process returned on a document of an earlier run: one pattern that carried
\* compile = false and an error message now compiles, another that carried
\* compile = true now fails
C5_Witness ==
  /\ pc = "returned" /\ Has(doc, PATTERNS)
  /\ \E i, j \in 1..Len(Patterns) :
       /\ Has(Get(doc0, PATTERNS).v[i], COMPILE)
       /\ Get(Get(doc0, PATTERNS).v[i], COMPILE) = PyBool(FALSE)
       /\ Get(Patterns[i], COMPILE) = PyBool(TRUE)
       /\ Has(Get(doc0, PATTERNS).v[j], COMPILE)
       /\ Get(Get(doc0, PATTERNS).v[j], COMPILE) = PyBool(TRUE)
       /\ Get(Patterns[j], COMPILE) = PyBool(FALSE)

\* C6 as stated: an engine call is made only for a pattern whose value and
\* options both resolve, and for an Execution whose subject and options both
\* resolve (anything else aborts the run, no default being supplied).
C6_NoDefaultSupplied ==
  \A m \in CallIds :
    /\ calls[m].op = "compile" =>
         /\ Resolves(Patterns[calls[m].pat], PATTERN_VALUE, pattern_strings)
         /\ Resolves(Patterns[calls[m].pat], COMPILE_OPTIONS, compile_options)
    /\ calls[m].op = "exec" =>
         LET exe == ExecutionsOf(Patterns[calls[m].pat], heap)[calls[m].exe]
         IN  /\ Resolves(exe, SUBJECT, subject_strings)
             /\ Resolves(exe, EXECUTE_OPTIONS, execute_options)

\* C6 amended: a pattern value or a subject that does not resolve raises
\* KeyError (missing key) or IndexError (index out of range) and ends the
\* run, and nothing else raises these; options that do not resolve are read
\* as [] and the engine is called with the bitmask 0.
C6_OnlyValueAndSubjectAbort ==
  /\ \A m \in CallIds :
       /\ calls[m].op = "compile" =>
            /\ Resolves(Patterns[calls[m].pat], PATTERN_VALUE, pattern_strings)
            /\ ~Resolves(Patterns[calls[m].pat], COMPILE_OPTIONS, compile_options)
                 => calls[m].bits = 0
       /\ calls[m].op = "exec" =>
            LET exe == ExecutionsOf(Patterns[calls[m].pat], heap)[calls[m].exe]
            IN  /\ Resolves(exe, SUBJECT, subject_strings)
                /\ ~Resolves(exe, EXECUTE_OPTIONS, execute_options) => calls[m].bits = 0
  /\ pc = "raised" /\ failure.kind \in {"KeyError", "IndexError"} =>
       LET obj == IF failure.at = "compile" THEN Patterns[pi] ELSE Executions[ei]
           key == IF failure.at = "compile" THEN PATTERN_VALUE ELSE SUBJECT
           reference == IF failure.at = "compile" THEN pattern_strings ELSE subject_strings
       IN  /\ ~Resolves(obj, key, reference)
           /\ failure.kind = "KeyError" <=> ~Has(obj, key)
  /\ pc \in {"loop", "exec", "returned"} /\ Has(doc, PATTERNS) =>
       \A i \in 1..Len(Patterns) :
         /\ i < pi => Resolves(Patterns[i], PATTERN_VALUE, pattern_strings)
         /\ i < pi /\ (\E j \in CompilesFor(i) : calls[j].ok) =>
              \A e \in 1..Len(ExecutionsOf(Patterns[i], heap)) :
                Resolves(ExecutionsOf(Patterns[i], heap)[e], SUBJECT, subject_strings)

\* a pattern without options key was compiled, an Execution whose options
\* index is out of range was executed, and then a subject that does not
\* resolve ended the run
C6_Witness ==
  /\ pc = "raised" /\ failure.at = "exec" /\ failure.kind \in {"KeyError", "IndexError"}
  /\ \E m \in CallIds :
       calls[m].op = "compile"
         /\ ~Resolves(Patterns[calls[m].pat], COMPILE_OPTIONS, compile_options)
  /\ \E m \in CallIds :
       calls[m].op = "exec"
         /\ ~Resolves(ExecutionsOf(Patterns[calls[m].pat], heap)[calls[m].exe],
                      EXECUTE_OPTIONS, execute_options)

\* C9: when process has returned, every Execution of a pattern whose
\* compile is true has a boolean match; its captures is a dict with exactly
\* the keys by_index and by_name when match is true, and the empty dict
\* when match is false.
C9_MatchAndCaptures ==
  pc = "returned" /\ Has(doc, PATTERNS) =>
    \A i \in 1..Len(Patterns) : Get(Patterns[i], COMPILE) = PyBool(TRUE) =>
      \A e \in 1..Len(ExecutionsOf(Patterns[i], heap)) :
        LET exe == ExecutionsOf(Patterns[i], heap)[e]
        IN  /\ Has(exe, MATCH) /\ Has(exe, CAPTURES)
            /\ Get(exe, MATCH).k = "bool"
            /\ Get(exe, MATCH).v =>
                 /\ Get(exe, CAPTURES).k = "dict"
                 /\ Keys(Get(exe, CAPTURES).v) = <<"by_index", "by_name">>
            /\ ~Get(exe, MATCH).v => Get(exe, CAPTURES) = PyDict(<< >>)

\* process returned, and a compiled pattern has an Execution that matched
\* and one that did not
C9_Witness ==
  /\ pc = "returned" /\ Has(doc, PATTERNS)
  /\ \E i \in 1..Len(Patterns) :
       /\ Get(Patterns[i], COMPILE) = PyBool(TRUE)
       /\ \E e, f \in 1..Len(ExecutionsOf(Patterns[i], heap)) :
            /\ Get(ExecutionsOf(Patterns[i], heap)[e], MATCH) = PyBool(TRUE)
            /\ Get(ExecutionsOf(Patterns[i], heap)[f], MATCH) = PyBool(FALSE)

----------------------------------------------------------------------------
(* Properties of the functions *)

Pos(d, key) == CHOOSE i \in 1..Len(d) : d[i][1] = key

\* what get_value is to return for its arguments, `lowest` being the lowest
\* integer that is a valid index
GetValueExpected(a, lowest) ==
  LET has == Has(a.obj, a.key)
      v == Get(a.obj, a.key)
      isInt == v.k \in {"int", "bool"}
      n == IF v.k = "int" THEN v.v ELSE IF v.v THEN 1 ELSE 0
      len == Len(a.reference)
      valid == n < len /\ n >= lowest
  IN  IF has /\ isInt /\ valid THEN Return(a.reference[((n + len) % len) + 1])
      ELSE IF has /\ ~isInt THEN Return(v)
      ELSE IF a.default # PyNone THEN Return(a.default)
      ELSE Raise(IF has THEN "IndexError" ELSE "KeyError")

\* C7 as stated: get_value returns reference[v] for an integer v in
\* 0..len(reference)-1, v itself when v is not an integer, and otherwise
\* (key missing, or any other integer) the default when there is one, else
\* raises KeyError for the missing key and IndexError for the integer.
C7_ValidPositionsFromZero ==
  Finished /\ fn = "get_value" => res = GetValueExpected(arg, 0)

\* C7 amended: the integers that are valid are those of Python list
\* indexing, -len(reference)..len(reference)-1, a negative v counting from
\* the end of the list (a bool counts as the integer 1 or 0).
C7_ValidPositionsOfPythonIndexing ==
  Finished /\ fn = "get_value" => res = GetValueExpected(arg, 0 - Len(arg.reference))

\* get_value was applied to a negative index within the list
C7_Witness ==
  /\ Finished /\ fn = "get_value"
  /\ Has(arg.obj, arg.key)
  /\ Get(arg.obj, arg.key).k = "int"
  /\ Get(arg.obj, arg.key).v < 0
  /\ Get(arg.obj, arg.key).v + Len(arg.reference) >= 0
  /\ res.ok

\* C8: after add_compile_keys_to_pattern the pattern has the keys compile
\* and error; when it had an execute key, it still has it, with the same
\* value, and compile and error both come before it in the key order.
C8_CompileAndErrorBeforeExecute ==
  Finished /\ fn = "add_compile_keys_to_pattern" =>
    LET out == res.val.v
    IN  /\ Has(out, COMPILE) /\ Has(out, ERROR)
        /\ Has(out, EXECUTE) <=> Has(arg.pattern, EXECUTE)
        /\ Has(arg.pattern, EXECUTE) =>
             /\ Get(out, EXECUTE) = Get(arg.pattern, EXECUTE)
             /\ Pos(out, COMPILE) < Pos(out, EXECUTE)
             /\ Pos(out, ERROR) < Pos(out, EXECUTE)
        /\ Cardinality({i \in 1..Len(out) : out[i][1] = EXECUTE}) <= 1

\* add_compile_keys_to_pattern was applied to a pattern of an earlier run
\* whose execute key came before its compile and error keys
C8_Witness ==
  /\ Finished /\ fn = "add_compile_keys_to_pattern"
  /\ Has(arg.pattern, EXECUTE) /\ Has(arg.pattern, COMPILE) /\ Has(arg.pattern, ERROR)
  /\ Pos(arg.pattern, EXECUTE) < Pos(arg.pattern, COMPILE)
  /\ Pos(arg.pattern, EXECUTE) < Pos(arg.pattern, ERROR)

ByIndex == Get(res.val.v, "by_index").v
ByName == Get(res.val.v, "by_name").v
\* the value an entry (index, name) of the name table gives to its name
NamedValue(index) ==
  IF index < arg.match_count THEN ByIndex[index + 1] ELSE PyNone
\* a group within the match count that did not take part in the match
Unset(index) ==
  index < arg.match_count /\ arg.ovector[2 * index + 1] = -1 /\ arg.ovector[2 * index + 2] = -1

\* C10 as stated: for every entry (index, name) of the name table,
\* by_name[name] is by_index[index] when index < match_count and None
\* otherwise; no IndexError is raised; a named group within the match count
\* that is unset gives the empty string.
C10_EveryNameTableEntry ==
  Finished /\ fn = "get_captures" =>
    /\ res.exc # "IndexError"
    /\ res.ok =>
         \A e \in 1..Len(arg.nametable) :
           LET index == arg.nametable[e][1]
               name == arg.nametable[e][2]
           IN  /\ Has(ByName, name)
               /\ Get(ByName, name) = NamedValue(index)
               /\ Unset(index) => Get(ByName, name) = PyStr(<< >>)

\* the last entry of the name table that carries the name of entry e
LastEntryOf(e) ==
  CHOOSE l \in 1..Len(arg.nametable) :
    /\ arg.nametable[l][2] = arg.nametable[e][2]
    /\ \A m \in 1..Len(arg.nametable) : arg.nametable[m][2] = arg.nametable[e][2] => m <= l

\* C10 amended: by_name has exactly the names of the name table, and the
\* value of a name is decided by the last entry (index, name) of the table
\* that carries the name: by_index[index] when index < match_count and None
\* otherwise; no IndexError is raised; when that group is within the match
\* count and unset, the value is the empty string.
C10_LastEntryOfEachName ==
  Finished /\ fn = "get_captures" =>
    /\ res.exc # "IndexError"
    /\ res.ok =>
         /\ Len(ByIndex) = arg.match_count
         /\ {ByName[i][1] : i \in 1..Len(ByName)}
              = {arg.nametable[e][2] : e \in 1..Len(arg.nametable)}
         /\ \A i, j \in 1..Len(ByName) : ByName[i][1] = ByName[j][1] => i = j
         /\ \A e \in 1..Len(arg.nametable) :
              LET index == arg.nametable[LastEntryOf(e)][1]
                  name == arg.nametable[e][2]
              IN  /\ Get(ByName, name) = NamedValue(index)
                  /\ Unset(index) => Get(ByName, name) = PyStr(<< >>)
                  /\ index >= arg.match_count => Get(ByName, name) = PyNone

\* get_captures returned for a name table in which one name is beyond the
\* match count, another is within it and unset, and a third group matched
C10_Witness ==
  /\ Finished /\ fn = "get_captures" /\ res.ok
  /\ \E e, f \in 1..Len(arg.nametable) :
       /\ arg.nametable[e][2] # arg.nametable[f][2]
       /\ arg.nametable[e][1] >= arg.match_count
       /\ Unset(arg.nametable[f][1])
  /\ \E i \in 1..Len(ByIndex) : ByIndex[i] # PyStr(<< >>)

----------------------------------------------------------------------------
(* Properties of get_captures: the numbered captures *)

\* the bytes of b at the positions p with start <= p < end, counted from 0
BytesBetween(b, start, end) == IF start < 0 THEN << >> ELSE SubSeq(b, start + 1, end)
\* the decoding of numbered capture i of the call
CaptureOf(i) ==
  Decode(BytesBetween(arg.subject_bytes, arg.ovector[2 * i + 1], arg.ovector[2 * i + 2]),
         lib.decode)

\* C11: for match_count >= 1, by_index has exactly match_count entries and
\* by_index[i] is the decoding of the subject bytes from offset[2i] up to
\* but excluding offset[2i+1], the offsets counting encoded bytes; entry 0
\* is the whole match.  get_captures raises exactly when one of these byte
\* ranges cannot be decoded.
C11_ByIndexIsDecodedByteRanges ==
  Finished /\ fn = "get_captures" /\ arg.match_count >= 1 =>
    /\ res.ok <=> \A i \in 0..(arg.match_count - 1) : CaptureOf(i).ok
    /\ res.ok =>
         /\ Len(ByIndex) = arg.match_count
         /\ \A i \in 0..(arg.match_count - 1) : ByIndex[i + 1] = PyStr(CaptureOf(i).val)

\* a subject of one two-byte character whose whole match is both bytes, and
\* a group that captured nothing of it
C11_Witness ==
  /\ Finished /\ fn = "get_captures" /\ res.ok
  /\ arg.subject_bytes = <<195, 169>>
  /\ arg.match_count = 2
  /\ arg.ovector[1] = 0 /\ arg.ovector[2] = 2
  /\ arg.ovector[3] = 2 /\ arg.ovector[4] = 2
  /\ ByIndex = <<PyStr(<<233>>), PyStr(<< >>)>>

----------------------------------------------------------------------------
(* One PCRELibrary instance and the operations made on it, in any order *)

\* the calls into libpcre the model follows on one instance
MaxCalls == 4

LibPatterns == {RE_caret_a, RE_mixed, RE_dot, RE_open}
LibSubjects == {S_a, S_b, S_eacute}
PCRE_ANCHORED == constant(S_anchored).v

LibCalls(cs) == [i \in 1..Len(cs) |-> Call(cs[i].op, 0, 0, cs[i].handle, 0, cs[i].ok)]

\* PCRELibrary(decode=..., ovector_size=...)
InitLib ==
  /\ lib \in {PCRELibrary("utf-8", decode, ovector_size) :
                decode \in {"utf-8", "latin-1"},
                ovector_size \in {DefaultOvectorSize, SmallOvectorSize}}
  /\ engine = NoEngine
  /\ calls = << >>
  /\ fn = "PCRELibrary"
  /\ arg = << >>
  /\ res = Pending
  /\ doc = << >>
  /\ heap = << >>
  /\ doc0 = << >>
  /\ heap0 = << >>
  /\ pc = "lib"
  /\ pi = 0
  /\ ei = 0
  /\ code = 0
  /\ failure = NoFailure
  /\ warnings = << >>

\* lib.compile(pattern)
LibCompile ==
  /\ Len(calls) < MaxCalls
  /\ \E pattern \in LibPatterns :
       LET r == compile(lib, engine, PyStr(pattern), 0)
       IN  /\ fn' = "compile"
           /\ arg' = [pattern |-> pattern]
           /\ res' = r.out
           /\ engine' = r.engine
           /\ calls' = calls \o LoadCalls(lib, 0)
                          \o <<Call("compile", 0, 0, r.handle, 0, r.out.ok)>>
  /\ lib' = get_lib(lib)

\* lib.exec(pcre_code, subject, exec_options), pcre_code compiled and not freed
LibExec ==
  /\ Len(calls) < MaxCalls
  /\ \E pcre_code \in engine.live, subject \in LibSubjects, exec_options \in {0, PCRE_ANCHORED} :
       LET r == exec(lib, engine, pcre_code, PyStr(subject), exec_options)
       IN  /\ fn' = "exec"
           /\ arg' = [pcre_code |-> pcre_code, subject |-> subject, exec_options |-> exec_options]
           /\ res' = r
           /\ calls' = calls \o LoadCalls(lib, 0)
                          \o <<Call("exec", 0, 0, pcre_code, exec_options, r.ok)>>
  /\ lib' = get_lib(lib)
  /\ UNCHANGED engine

\* lib.free(pcre_code), pcre_code compiled and not freed
LibFree ==
  /\ Len(calls) < MaxCalls
  /\ \E pcre_code \in engine.live :
       /\ fn' = "free"
       /\ arg' = [pcre_code |-> pcre_code]
       /\ res' = Return(PyNone)
       /\ engine' = free(lib, engine, pcre_code)
       /\ calls' = calls \o LoadCalls(lib, 0) \o <<Call("free", 0, 0, pcre_code, 0, TRUE)>>
  /\ lib' = get_lib(lib)

\* lib.ordered_nametable(pcre_code), pcre_code compiled and not freed
LibOrderedNametable ==
  /\ Len(calls) < MaxCalls
  /\ \E pcre_code \in engine.live :
       /\ fn' = "ordered_nametable"
       /\ arg' = [pcre_code |-> pcre_code]
       /\ res' = ordered_nametable(lib, NameTableOf(engine.text[pcre_code].pattern))
       /\ calls' = calls \o LoadCalls(lib, 0) \o <<Call("fullinfo", 0, 0, pcre_code, 0, TRUE)>>
  /\ lib' = get_lib(lib)
  /\ UNCHANGED engine

\* lib.match(pattern, subject)
LibMatch ==
  /\ Len(calls) < MaxCalls
  /\ \E pattern \in LibPatterns, subject \in LibSubjects :
       LET r == match(lib, engine, PyStr(pattern), PyStr(subject), 0, 0)
       IN  /\ fn' = "match"
           /\ arg' = [pattern |-> pattern, subject |-> subject]
           /\ res' = r.out
           /\ engine' = r.engine
           /\ calls' = calls \o LoadCalls(lib, 0) \o LibCalls(r.calls)
  /\ lib' = get_lib(lib)

libVars == <<doc, heap, doc0, heap0, pc, pi, ei, code, failure, warnings>>

NextLib ==
  \/ LibCompile /\ UNCHANGED libVars
  \/ LibExec /\ UNCHANGED libVars
  \/ LibFree /\ UNCHANGED libVars
  \/ LibOrderedNametable /\ UNCHANGED libVars
  \/ LibMatch /\ UNCHANGED libVars

SpecLib == InitLib /\ [][NextLib]_vars

----------------------------------------------------------------------------
(* Properties of the operations of PCRELibrary *)

\* what pcre_exec gave in the exec call the instance has just made
ExecSubjectBytes == Encode(arg.subject, lib.encode).val
EngineExec ==
  pcre_exec(engine.text[arg.pcre_code], ExecSubjectBytes, arg.exec_options, lib.ovector_size)
\* the capture structure: a dict with exactly the keys by_index and by_name
IsCaptureStructure(val) ==
  val.k = "dict" /\ Keys(val.v) = <<"by_index", "by_name">>
\* one of the offset pairs pcre_exec left does not hold decodable bytes
UndecodableCapture ==
  \E i \in 0..(EngineExec.rc - 1) :
    ~Decode(BytesBetween(ExecSubjectBytes, EngineExec.ovector[2 * i + 1],
                         EngineExec.ovector[2 * i + 2]), lib.decode).ok

\* C12 as stated: exec returns False for every match count below 1 and
\* does not raise then; for every match count >= 1 it returns the capture
\* structure with the keys by_index and by_name.
C12_FalseOrCaptureStructure ==
  fn = "exec" =>
    /\ EngineExec.rc < 1 => res = Return(PyBool(FALSE))
    /\ EngineExec.rc >= 1 => res.ok /\ IsCaptureStructure(res.val)

\* C12 amended: for a match count >= 1 exec returns the capture structure
\* unless the bytes of a capture cannot be decoded with the decoding of the
\* instance; exec then raises UnicodeDecodeError.
C12_FalseOrCapturesOrDecodeError ==
  fn = "exec" =>
    /\ EngineExec.rc < 1 => res = Return(PyBool(FALSE))
    /\ EngineExec.rc >= 1 /\ ~UndecodableCapture => res.ok /\ IsCaptureStructure(res.val)
    /\ EngineExec.rc >= 1 /\ UndecodableCapture => res = Raise("UnicodeDecodeError")

\* '.' compiled without PCRE_UTF8 matches the first byte of 'é': exec raises
C12_Witness ==
  /\ fn = "exec"
  /\ engine.text[arg.pcre_code].pattern = RE_dot
  /\ arg.subject = S_eacute
  /\ EngineExec.rc = 1
  /\ res = Raise("UnicodeDecodeError")

\* the name table of the compiled pattern the last operation was about
NameTableAt == NameTableOf(engine.text[arg.pcre_code].pattern)
\* the highest group number that has a name, 0 when there is none
HighestNamed ==
  IF NameTableAt = << >> THEN 0
  ELSE CHOOSE n \in {NameTableAt[e][1] : e \in 1..Len(NameTableAt)} :
         \A e \in 1..Len(NameTableAt) : NameTableAt[e][1] <= n

\* C13: for every compiled pattern ordered_nametable returns a list of
\* length (highest named group number + 1) whose position 0 is None and
\* whose position i is the name of group i, or None when group i has no
\* name; unnamed groups may come before named ones.
C13_OrderedNametableByGroupNumber ==
  fn = "ordered_nametable" =>
    /\ res.ok
    /\ res.val = PyList([j \in 1..(HighestNamed + 1) |->
                   IF \E e \in 1..Len(NameTableAt) : NameTableAt[e][1] = j - 1
                   THEN PyStr(NameText(NameTableAt[
                          CHOOSE e \in 1..Len(NameTableAt) : NameTableAt[e][1] = j - 1][2]))
                   ELSE PyNone])

\* the compile call of the match the instance has just made
MatchCompileAt == CHOOSE c \in 1..Len(calls) :
                    calls[c].op = "compile" /\ \A d \in (c + 1)..Len(calls) : calls[d].op # "compile"

\* C18: match calls compile, then exec once on the compiled handle, then
\* free on that handle, and returns what exec returned; when compile raises
\* there is no exec and no free; when compile succeeded the handle is freed
\* exactly once, also when exec raises because a capture does not decode.
C18_MatchCompilesExecutesFrees ==
  fn = "match" =>
    LET c == MatchCompileAt
        h == calls[c].handle
    IN  IF ~calls[c].ok
        THEN Len(calls) = c /\ res = Raise("PCRECompileException")
        ELSE /\ Len(calls) = c + 2
             /\ calls[c + 1].op = "exec" /\ calls[c + 1].handle = h
             /\ calls[c + 2].op = "free" /\ calls[c + 2].handle = h
             /\ h \notin engine.live
             /\ res = exec(lib, engine, h, PyStr(arg.subject), 0)

\* what the code does keep: the same, for the calls of match in which exec
\* does not raise; when exec raises, the handle is left compiled
MatchFreesUnlessExecRaises ==
  fn = "match" =>
    LET c == MatchCompileAt
        h == calls[c].handle
    IN  IF ~calls[c].ok
        THEN Len(calls) = c /\ res = Raise("PCRECompileException")
        ELSE /\ res = exec(lib, engine, h, PyStr(arg.subject), 0)
             /\ calls[c + 1].op = "exec" /\ calls[c + 1].handle = h
             /\ IF res.ok
                THEN /\ Len(calls) = c + 2
                     /\ calls[c + 2].op = "free" /\ calls[c + 2].handle = h
                     /\ h \notin engine.live
                ELSE Len(calls) = c + 1 /\ h \in engine.live

\* the loads of libpcre the instance has made
LoadsMade == {m \in 1..Len(calls) : calls[m].op = "load"}

----------------------------------------------------------------------------
(* The option functions on their own, and normalise_doc_options *)

\* the '|'-separated segments of one option value
MaxSegments == 2

T_PCRE_ANCHORED == <<80, 67, 82, 69, 95, 65, 78, 67, 72, 79, 82, 69, 68>>  \* 'PCRE_ANCHORED'
\* what a segment holds between its padding: nothing, the name of a
\* constant in either spelling (PCRE_ANCHORED in both), or a name that is
\* no constant ('bogus', 'no such')
OptionTokens ==
  {<< >>, S_caseless, S_anchored, T_PCRE_ANCHORED, <<98, 111, 103, 117, 115>>,
   <<110, 111, 32, 115, 117, 99, 104>>}
\* runs of segments <<token, left padding, right padding>>, bare or padded
\* with a space before and a tab and a space after
SegmentRuns ==
  UNION {[1..n -> {<<t, << >>, << >> >> : t \in OptionTokens}
                    \cup {<<t, <<32>>, <<9, 32>> >> : t \in OptionTokens}] : n \in 1..MaxSegments}

\* '|'.join of the segments of a run
RECURSIVE JoinSegments(_)
JoinSegments(run) ==
  LET text == Head(run)[2] \o Head(run)[1] \o Head(run)[3]
  IN  IF Len(run) = 1 THEN text ELSE text \o <<124>> \o JoinSegments(Tail(run))
\* the run cut into the strings of a list, a new string after each position of cuts
RECURSIVE CutRun(_, _, _, _, _)
CutRun(run, cuts, i, current, done) ==
  IF i > Len(run) THEN Append(done, current)
  ELSE IF (i - 1) \in cuts THEN CutRun(run, cuts, i + 1, <<run[i]>>, Append(done, current))
  ELSE CutRun(run, cuts, i + 1, Append(current, run[i]), done)

\* option values: a str, or a list of str; tokens recalls what the
\* segments of the value hold, in order
OptionArgs ==
  { [value |-> PyStr(JoinSegments(run)), tokens |-> [i \in 1..Len(run) |-> run[i][1]]] :
      run \in SegmentRuns }
  \cup { [value |-> PyList([k \in 1..Len(CutRun(run, cuts, 2, <<run[1]>>, << >>)) |->
                              PyStr(JoinSegments(CutRun(run, cuts, 2, <<run[1]>>, << >>)[k]))]),
          tokens |-> [i \in 1..Len(run) |-> run[i][1]]] :
           run \in SegmentRuns, cuts \in SUBSET (1..(MaxSegments - 1)) }
  \cup { [value |-> PyList(<< >>), tokens |-> << >>] }

\* documents whose options are names, normalised or not, indexes, or missing;
\* the subject strings of the references read like an option name
OptionDocuments ==
  LET items == {PyStr(S_bogus_notempty), PyList(<<PyStr(S_caseless), PyStr(S_old)>>)}
      patterns == { << <<PATTERN_VALUE, PyStr(RE_caret_a)>>, <<EXECUTE, PyRef(1)>> >>,
                    << <<PATTERN_VALUE, PyStr(RE_caret_a)>>, <<COMPILE_OPTIONS, PyInt(0)>> >>,
                    << <<PATTERN_VALUE, PyStr(RE_dot)>>, <<COMPILE_OPTIONS, PyStr(S_bogus_notempty)>>,
                       <<EXECUTE, PyRef(1)>> >>,
                    << <<PATTERN_VALUE, PyStr(RE_dot)>>,
                       <<COMPILE_OPTIONS, PyList(<<PyStr(S_anchored), PyStr(S_caseless)>>)>>,
                       <<EXECUTE, PyRef(1)>> >> }
      executions == { << <<SUBJECT, PyStr(S_a)>> >>,
                      << <<SUBJECT, PyStr(S_a)>>, <<EXECUTE_OPTIONS, PyInt(0)>> >>,
                      << <<SUBJECT, PyInt(0)>>, <<EXECUTE_OPTIONS, PyStr(S_bogus_notempty)>> >> }
  IN  { [doc |-> << <<REFERENCE_SUBJECT_STRINGS, PyList(<<PyStr(S_caseless)>>)>> >>
                   \o references \o << <<PATTERNS, PyList(ps)>> >>, heap |-> <<es>>] :
          references \in { << >> } \cup { << <<REFERENCE_COMPILE_OPTIONS, PyList(<<i>>)>> >> : i \in items }
                           \cup { << <<REFERENCE_EXECUTE_OPTIONS, PyList(<<i, i>>)>> >> : i \in items },
          ps \in SeqsUpTo(patterns, MaxPatterns),
          es \in SeqsUpTo(executions, MaxExecs) }
      \cup { [doc |-> << <<REFERENCE_COMPILE_OPTIONS, PyList(<<i>>)>> >>, heap |-> << >>] : i \in items }

InitOpt ==
  /\ \/ /\ arg \in OptionArgs
        /\ doc = << >>
        /\ heap = << >>
     \/ /\ arg = [value |-> PyNone, tokens |-> << >>]
        /\ \E d \in OptionDocuments : doc = d.doc /\ heap = d.heap
  /\ doc0 = doc
  /\ heap0 = heap
  /\ fn = "none"
  /\ res = Pending
  /\ pc = "options"
  /\ pi = 0
  /\ ei = 0
  /\ code = 0
  /\ lib = PCRELibrary("utf-8", "utf-8", DefaultOvectorSize)
  /\ engine = NoEngine
  /\ calls = << >>
  /\ failure = NoFailure
  /\ warnings = << >>

\* list(extract_options(value))
ApplyExtractOptions ==
  /\ res = Pending /\ arg.value # PyNone
  /\ fn' = "extract_options"
  /\ res' = Return(PyList([i \in 1..Len(extract_options(arg.value)) |->
                             PyStr(extract_options(arg.value)[i])]))
  /\ UNCHANGED <<arg, doc, heap, warnings>>

\* normalise_options(value)
ApplyNormaliseOptions ==
  /\ res = Pending /\ arg.value # PyNone
  /\ fn' = "normalise_options"
  /\ res' = Return(normalise_options(arg.value))
  /\ UNCHANGED <<arg, doc, heap, warnings>>

\* list(extract_option_values(value)), the warnings going to stderr
ApplyExtractOptionValues ==
  /\ res = Pending /\ arg.value # PyNone
  /\ fn' = "extract_option_values"
  /\ res' = Return(PyList([i \in 1..Len(extract_option_values(arg.value)) |->
                             PyInt(extract_option_values(arg.value)[i])]))
  /\ warnings' = warnings \o option_warnings(arg.value)
  /\ UNCHANGED <<arg, doc, heap>>

\* or_options(extract_option_values(value)), the bitmask process passes to
\* compile and to exec (util.py:158 and 169)
ApplyOrOptions ==
  /\ res = Pending /\ arg.value # PyNone
  /\ fn' = "or_options"
  /\ res' = Return(PyInt(or_options(extract_option_values(arg.value), 0)))
  /\ warnings' = warnings \o option_warnings(arg.value)
  /\ UNCHANGED <<arg, doc, heap>>

\* normalise_doc_options(doc), a first time or again
ApplyNormaliseDocOptions ==
  /\ arg.value = PyNone
  /\ fn' = "normalise_doc_options"
  /\ res' = Return(PyNone)
  /\ doc' = normalise_doc_options(doc, heap).doc
  /\ heap' = normalise_doc_options(doc, heap).heap
  /\ UNCHANGED <<arg, warnings>>

NextOpt ==
  \/ ApplyExtractOptions /\ UNCHANGED <<doc0, heap0, pc, pi, ei, code, lib, engine, calls, failure>>
  \/ ApplyNormaliseOptions /\ UNCHANGED <<doc0, heap0, pc, pi, ei, code, lib, engine, calls, failure>>
  \/ ApplyExtractOptionValues /\ UNCHANGED <<doc0, heap0, pc, pi, ei, code, lib, engine, calls, failure>>
  \/ ApplyOrOptions /\ UNCHANGED <<doc0, heap0, pc, pi, ei, code, lib, engine, calls, failure>>
  \/ ApplyNormaliseDocOptions /\ UNCHANGED <<doc0, heap0, pc, pi, ei, code, lib, engine, calls, failure>>

SpecOpt == InitOpt /\ [][NextOpt]_vars

----------------------------------------------------------------------------
(* Properties of the option functions *)

T_PCRE_CASELESS == <<80, 67, 82, 69, 95, 67, 65, 83, 69, 76, 69, 83, 83>>  \* 'PCRE_CASELESS'

\* the tokens of the value that are not empty, in order
GivenTokens == SelectSeq(arg.tokens, LAMBDA t : t # << >>)
\* those that name a constant of pcre.py, and those that do not
KnownTokens == SelectSeq(GivenTokens, LAMBDA t : t \in {S_caseless, S_anchored, T_PCRE_ANCHORED})
UnknownTokens == SelectSeq(GivenTokens, LAMBDA t : t \notin {S_caseless, S_anchored, T_PCRE_ANCHORED})

\* C14: for a str or a list of str holding '|'-separated segments padded
\* with whitespace, extract_options yields exactly the trimmed segments that
\* are not empty, in the order of the input across all the strings,
\* duplicates kept.
C14_TrimmedNonEmptySegmentsInOrder ==
  fn = "extract_options" =>
    res = Return(PyList([i \in 1..Len(GivenTokens) |-> PyStr(GivenTokens[i])]))

\* a list of two padded strings holding the same name: it is yielded twice
C14_Witness ==
  /\ fn = "extract_options"
  /\ arg.value.k = "list" /\ Len(arg.value.v) = 2
  /\ arg.value.v[1].v # arg.tokens[1]
  /\ arg.tokens[1] = arg.tokens[2] /\ arg.tokens[1] # << >>
  /\ res.ok /\ Len(res.val.v) = 2 /\ res.val.v[1] = res.val.v[2]

\* C15: normalise_options and extract_option_values drop exactly the tokens
\* that name no constant and keep the others in order, neither raises;
\* normalise_options writes no warning, extract_option_values one warning
\* for each occurrence of a dropped token.
C15_UnknownTokensDropped ==
  /\ fn = "normalise_options" =>
       /\ res = Return(PyList([i \in 1..Len(KnownTokens) |->
                   PyStr(IF KnownTokens[i] = S_caseless THEN T_PCRE_CASELESS
                         ELSE T_PCRE_ANCHORED)]))
       /\ warnings = << >>
  /\ fn = "extract_option_values" =>
       /\ res = Return(PyList([i \in 1..Len(KnownTokens) |->
                   PyInt(IF KnownTokens[i] = S_caseless THEN 1 ELSE 16)]))
       /\ warnings = UnknownTokens

\* the same unknown name twice and a known one: two warnings, one value
C15_Witness ==
  /\ fn = "extract_option_values"
  /\ Len(warnings) = 2 /\ warnings[1] = warnings[2]
  /\ Len(arg.tokens) = 2
  /\ res.ok /\ res.val.v = << >>

\* C16: normalise_options of a normalised value is that value, and
\* normalise_doc_options run again on a document leaves it as the first run
\* left it.
C16_NormalisationIdempotent ==
  /\ fn = "normalise_options" => normalise_options(res.val) = res.val
  /\ fn = "normalise_doc_options" =>
       normalise_doc_options(doc, heap) = [doc |-> doc, heap |-> heap]

\* a run of normalise_doc_options that changed a reference list or a
\* pattern, and an Execution
C16_Witness ==
  /\ fn = "normalise_doc_options"
  /\ doc # doc0
  /\ heap # heap0

----------------------------------------------------------------------------
(* Properties of process: the order of the calls into libpcre *)

\* the calls process made for compiling, executing and freeing
EngineCallIds == {m \in CallIds : calls[m].op \in {"compile", "exec", "free"}}
\* the place of a call among the calls of its pattern: the compile, the
\* exec of Execution 1, 2, ..., the free
PlaceInPattern(m) ==
  CASE calls[m].op = "compile" -> 0
    [] calls[m].op = "exec" -> calls[m].exe
    [] OTHER -> Len(ExecutionsOf(Patterns[calls[m].pat], heap)) + 1

\* C17: the calls come in document order: for a pattern its compile, then
\* one exec per Execution in list order, then its free, and all of them
\* before the compile of a later pattern (a pattern that fails to compile
\* has its compile only); at most one compiled pattern is live at any time.
C17_CallsInDocumentOrder ==
  /\ \A m, n \in EngineCallIds : m < n =>
       \/ calls[m].pat < calls[n].pat
       \/ calls[m].pat = calls[n].pat /\ PlaceInPattern(m) < PlaceInPattern(n)
  /\ \A n \in EngineCallIds : calls[n].op = "exec" /\ calls[n].exe > 1 =>
       \E m \in 1..(n - 1) : /\ calls[m].op = "exec" /\ calls[m].pat = calls[n].pat
                             /\ calls[m].exe = calls[n].exe - 1
  /\ \A n \in EngineCallIds : calls[n].op \in {"exec", "free"} =>
       \E m \in 1..(n - 1) : CompiledOkAt(m) /\ calls[m].pat = calls[n].pat
  /\ \A n \in EngineCallIds : calls[n].op = "compile" =>
       \A q \in 1..(calls[n].pat - 1) :
         \E m \in 1..(n - 1) :
           /\ calls[m].op = "compile" /\ calls[m].pat = q
           /\ calls[m].ok =>
                /\ {calls[e].exe : e \in ExecsFor(q)}
                     = 1..Len(ExecutionsOf(Patterns[q], heap))
                /\ \E f \in (m + 1)..(n - 1) :
                     calls[f].op = "free" /\ calls[f].pat = q
  /\ Cardinality(engine.live) <= 1

\* two patterns compiled one after the other, the first with two Executions
C17_Witness ==
  /\ pc = "returned"
  /\ \E m, n \in EngineCallIds :
       /\ CompiledOkAt(m) /\ CompiledOkAt(n)
       /\ calls[m].pat = 1 /\ calls[n].pat = 2
       /\ Cardinality(ExecsFor(1)) = 2
       /\ ExecsFor(2) # {}

\* a document that declares no patterns: no patterns key, or an empty list
DeclaresNoPatterns(d) == ~Has(d, PATTERNS) \/ Get(d, PATTERNS).v = << >>

\* C19: process on a document that declares no patterns never raises, leaves
\* every field of the document and every list it refers to as they were (so
\* the document it returns is the one it was given), and makes no call into
\* libpcre: no load, no compile, no exec, no free.
C19_NoPatternsIsNoOp ==
  DeclaresNoPatterns(doc0) =>
    /\ doc = doc0
    /\ heap = heap0
    /\ calls = << >>
    /\ engine = NoEngine
    /\ lib.libpcre = "none"
    /\ pc # "raised"

\* process has returned a document that has no patterns key
C19_Witness == pc = "returned" /\ ~Has(doc0, PATTERNS) /\ doc0 # << >>

----------------------------------------------------------------------------
(* Properties of normalise_doc_options *)

\* a dict with its options field put through normalise_options, unless the
\* field is an integer or is missing; the other fields as they are
NormalisedDict(d, key) ==
  [i \in 1..Len(d) |->
     IF d[i][1] = key /\ d[i][2].k \notin {"int", "bool"}
     THEN <<key, normalise_options(d[i][2])>>
     ELSE d[i]]
\* the execute lists the patterns of a document refer to
ExecuteListsOf(d) ==
  IF ~Has(d, PATTERNS) THEN {}
  ELSE {Get(Get(d, PATTERNS).v[p], EXECUTE).v :
          p \in {q \in 1..Len(Get(d, PATTERNS).v) : Has(Get(d, PATTERNS).v[q], EXECUTE)}}

\* C21: after normalise_doc_options every element of the compile_options
\* and execute_options reference lists and every options field of a pattern
\* or an Execution that is not an integer is normalise_options of what it
\* was; integer options fields, missing options keys, pattern values,
\* subjects and every other field of the document are as they were.
C21_OnlyOptionsAreNormalised ==
  fn = "normalise_doc_options" =>
    /\ Len(doc) = Len(doc0)
    /\ \A i \in 1..Len(doc0) :
         LET key == doc0[i][1]
             old == doc0[i][2]
         IN  /\ doc[i][1] = key
             /\ doc[i][2] =
                  IF key \in {REFERENCE_COMPILE_OPTIONS, REFERENCE_EXECUTE_OPTIONS}
                  THEN PyList([j \in 1..Len(old.v) |-> normalise_options(old.v[j])])
                  ELSE IF key = PATTERNS
                  THEN PyList([p \in 1..Len(old.v) |-> NormalisedDict(old.v[p], COMPILE_OPTIONS)])
                  ELSE old
    /\ DOMAIN heap = DOMAIN heap0
    /\ \A l \in DOMAIN heap0 :
         heap[l] = IF l \in ExecuteListsOf(doc0)
                   THEN [e \in 1..Len(heap0[l]) |-> NormalisedDict(heap0[l][e], EXECUTE_OPTIONS)]
                   ELSE heap0[l]

\* a document with a reference list, a pattern whose options are an
\* integer, a pattern whose options are names, and an Execution whose
\* options are names
C21_Witness ==
  /\ fn = "normalise_doc_options"
  /\ Has(doc0, REFERENCE_EXECUTE_OPTIONS) /\ Has(doc0, PATTERNS)
  /\ Get(doc, REFERENCE_EXECUTE_OPTIONS) # Get(doc0, REFERENCE_EXECUTE_OPTIONS)
  /\ \E p, q \in 1..Len(Get(doc0, PATTERNS).v) :
       LET before == Get(doc0, PATTERNS).v
           after == Get(doc, PATTERNS).v
       IN  /\ Has(before[p], COMPILE_OPTIONS) /\ Get(before[p], COMPILE_OPTIONS).k = "int"
           /\ after[p] = before[p]
           /\ Has(before[q], COMPILE_OPTIONS) /\ Get(before[q], COMPILE_OPTIONS).k = "str"
           /\ after[q] # before[q]
           /\ Get(after[q], PATTERN_VALUE) = Get(before[q], PATTERN_VALUE)
  /\ heap # heap0

----------------------------------------------------------------------------
(* Properties of nametable_entry *)

\* the position of the first zero byte after the two index bytes
Terminator(entry) ==
  CHOOSE z \in 3..Len(entry) : entry[z] = 0 /\ \A j \in 3..(z - 1) : entry[j] # 0

\* C22: nametable_entry gives the pair of 256 * byte 0 + byte 1 and the
\* text of the bytes from position 2 up to the first zero byte, that byte
\* excluded; what follows the zero byte plays no part.
C22_BigEndianIndexAndName ==
  fn = "nametable_entry" /\ Finished =>
    LET entry == arg.entry
        z == Terminator(entry)
    IN  /\ res = Return(PyTuple(<<PyInt(256 * entry[1] + entry[2]),
                                  PyStr(SubSeq(entry, 3, z - 1))>>))
        /\ res = nametable_entry(SubSeq(entry, 1, z))

\* an entry whose two index bytes differ, with a name of two characters and
\* bytes, one of them not ASCII, after the zero byte
C22_Witness ==
  /\ fn = "nametable_entry" /\ Finished
  /\ arg.entry[1] = 1 /\ arg.entry[2] = 0
  /\ Terminator(arg.entry) = 5
  /\ Len(arg.entry) = 7 /\ arg.entry[6] = 200
  /\ res.ok /\ res.val.v[1] = PyInt(256) /\ Len(res.val.v[2].v) = 2

----------------------------------------------------------------------------
(* Properties of the option bitmask *)

\* the bitmask process computes for the options of a pattern or an
\* Execution of document d (util.py:157-158 and 168-169)
BitmaskOf(obj, key, d, reference_key) ==
  or_options(extract_option_values(
    get_value(obj, key, GetOr(d, reference_key, PyList(<< >>)).v, PyList(<< >>)).val), 0)

\* C23: the bitmask made from an option value is the OR of the constants of
\* the known names among its tokens, whatever their order, their number of
\* occurrences and their spelling (letter case, PCRE_ prefix) and whatever
\* unknown tokens stand among them; it is the same when the value, or the
\* whole document, is normalised first.
C23_BitmaskOfKnownNames ==
  /\ fn = "or_options" =>
       /\ res = Return(PyInt(
            (IF \E i \in 1..Len(arg.tokens) : arg.tokens[i] = S_caseless THEN 1 ELSE 0)
            + (IF \E i \in 1..Len(arg.tokens) : arg.tokens[i] \in {S_anchored, T_PCRE_ANCHORED}
               THEN 16 ELSE 0)))
       /\ res.val.v = or_options(extract_option_values(normalise_options(arg.value)), 0)
  /\ fn = "normalise_doc_options" /\ Has(doc0, PATTERNS) =>
       \A p \in 1..Len(Get(doc0, PATTERNS).v) :
         LET before == Get(doc0, PATTERNS).v[p]
             after == Get(doc, PATTERNS).v[p]
         IN  /\ BitmaskOf(after, COMPILE_OPTIONS, doc, REFERENCE_COMPILE_OPTIONS)
                  = BitmaskOf(before, COMPILE_OPTIONS, doc0, REFERENCE_COMPILE_OPTIONS)
             /\ \A e \in 1..Len(ExecutionsOf(before, heap0)) :
                  BitmaskOf(ExecutionsOf(after, heap)[e], EXECUTE_OPTIONS, doc, REFERENCE_EXECUTE_OPTIONS)
                    = BitmaskOf(ExecutionsOf(before, heap0)[e], EXECUTE_OPTIONS, doc0,
                                REFERENCE_EXECUTE_OPTIONS)

\* PCRE_ANCHORED and anchored in one value: the constant is there once
C23_Witness ==
  /\ fn = "or_options"
  /\ arg.tokens = <<T_PCRE_ANCHORED, S_anchored>>
  /\ res = Return(PyInt(16))

----------------------------------------------------------------------------
(* Properties of process on the documents of DocumentFactory1n *)

FromFactory1n == \E f \in Factory1nDocuments : doc0 = f.doc /\ heap0 = f.heap
\* what an Execution holds after exec returned result for it
Reported(exe, result) ==
  /\ Has(exe, MATCH) /\ Get(exe, MATCH) = PyBool(Truthy(result))
  /\ Has(exe, CAPTURES)
  /\ Get(exe, CAPTURES) = IF Truthy(result) THEN result ELSE PyDict(<< >>)
\* what exec returns for pattern i of the document and its one subject
ResultFor(i) ==
  match(lib, NoEngine, Get(Patterns[i], PATTERN_VALUE),
        Get(doc0, REFERENCE_SUBJECT_STRINGS).v[1], 0, 0).out.val

\* C24: when process has returned on a document of DocumentFactory1n, the
\* Execution of each pattern that compiled holds the match and the captures
\* of the subject against that pattern, and the Execution of a pattern that
\* failed to compile has no match and no captures key.
C24_EachPatternReportsItsOwnMatch ==
  pc = "returned" /\ FromFactory1n =>
    \A i \in 1..Len(Patterns) :
      LET exe == ExecutionsOf(Patterns[i], heap)[1]
      IN  IF Get(Patterns[i], COMPILE) = PyBool(TRUE)
          THEN Reported(exe, ResultFor(i))
          ELSE ~Has(exe, MATCH) /\ ~Has(exe, CAPTURES)

\* what the code does keep: the one Execution the patterns share holds the
\* result of the last pattern that compiled, and no result when none did
SharedExecutionReportsLastCompiled ==
  pc = "returned" /\ FromFactory1n /\ Patterns # << >> =>
    LET compiled == {i \in 1..Len(Patterns) : Get(Patterns[i], COMPILE) = PyBool(TRUE)}
        exe == heap[1][1]
    IN  /\ \A i \in 1..Len(Patterns) : ExecutionsOf(Patterns[i], heap) = heap[1]
        /\ IF compiled = {} THEN exe = heap0[1][1]
           ELSE Reported(exe, ResultFor(CHOOSE i \in compiled : \A j \in compiled : j <= i))

----------------------------------------------------------------------------
(* Properties of process: the compile field when process ends *)

\* C25: when process has returned or raised, a pattern whose compile field
\* is true was compiled successfully by libpcre during this run.
C25_CompileTrueOnlyIfCompiled ==
  Terminated /\ Has(doc, PATTERNS) =>
    \A i \in 1..Len(Patterns) :
      Has(Patterns[i], COMPILE) /\ Get(Patterns[i], COMPILE) = PyBool(TRUE) =>
        \E j \in CompilesFor(i) : calls[j].ok

\* what the code does keep: the same for the patterns that came with no
\* compile field, when process returns or raises in the execution phase
CompileTrueOnlyIfCompiledUnlessValueFails ==
  Terminated /\ Has(doc, PATTERNS) /\ ~(pc = "raised" /\ failure.at = "compile") =>
    \A i \in 1..Len(Patterns) :
      /\ ~Has(Get(doc0, PATTERNS).v[i], COMPILE)
      /\ Has(Patterns[i], COMPILE) /\ Get(Patterns[i], COMPILE) = PyBool(TRUE)
      => \E j \in CompilesFor(i) : calls[j].ok

----------------------------------------------------------------------------
(* Properties of process: matches and the size of the offset vector *)

\* the exec call process has just made and the Execution it was made for
LastExec == calls[Len(calls)]
LastExecution == ExecutionsOf(Patterns[LastExec.pat], heap)[LastExec.exe]
\* the offset pairs libpcre finds for that call: none when there is no match
LastExecPairs ==
  MatchPairs(engine.text[LastExec.handle],
             Encode(get_value(LastExecution, SUBJECT, subject_strings, PyNone).val.v,
                    lib.encode).val,
             LastExec.bits)
JustExecuted == pc = "exec" /\ calls # << >> /\ LastExec.op = "exec" /\ LastExec.ok

\* C26: an Execution whose subject libpcre matched gets match = true,
\* whether or not the offset vector has room for the offsets of every group
\* of the pattern.
C26_MatchReportedWhateverTheOvector ==
  JustExecuted /\ LastExecPairs # << >> => Get(LastExecution, MATCH) = PyBool(TRUE)

\* what the code does keep: match is true exactly when libpcre matched and
\* the offset vector has room for every offset pair of the match
MatchReportedWhenPairsFit ==
  JustExecuted =>
    (Get(LastExecution, MATCH) = PyBool(TRUE)
       <=> LastExecPairs # << >> /\ Len(LastExecPairs) <= lib.ovector_size \div 3)
====
